---- MODULE Spec2Model ----
(***************************************************************************)
(* b3scale: the table-backed command queue (pkg/store/command_queue.go)    *)
(* with its consumers (cluster.Controller), and the node state of a        *)
(* backend (cluster.Backend.loadNodeState, store.BackendState).            *)
(*                                                                         *)
(* Time is counted in seconds and advances in steps of TickSeconds.        *)
(* Database calls that the code checks for an error can fail; the number   *)
(* of failures in one behaviour is capped by MaxFaults.                    *)
(***************************************************************************)
EXTENDS Naturals, Integers, Sequences, FiniteSets, TLC

\* ------------------------------------------------------------------ bounds
MaxCommands == 2
MaxTicks    == 3
MaxFaults   == 1
TickSeconds == 60
MaxAttendees == 2
MaxCount     == 1
MaxTags      == 2
MaxParams    == 2
MaxLoad      == 1
MaxLatency   == 1
MaxRequests  == 2

\* ------------------------------------------------------- program constants
DeadlineSeconds == 120
ExpireSeconds   == 60

cmdQueue == "commands_queue"

Consumers == {"c1", "c2"}
Seqs      == 1..MaxCommands

Actions     == {"UpdateMeetingState", "OtherAction"}
Unencodable == "unencodable"
ParamValues == {"params", Unencodable}
Null        == <<"null">>
ZeroTime    == 0

VARIABLES
  now,          \* the clock, in seconds
  faults,       \* database failures so far
  inputs,       \* the commands a caller of Queue may pass
  active,       \* the consumers that run a Receive loop
  track,        \* whether missed and swept are recorded
  commands,     \* the commands table: seq -> row
  nextSeq,      \* the sequence behind commands.seq
  enq,          \* the caller of Queue: its position, its command, its return
  notifies,     \* NOTIFY statements executed so far
  sub,          \* q.subscription of each consumer (TRUE: a LISTEN connection)
  notif,        \* notifications pending on each consumer's subscription
  missed,       \* a NOTIFY was sent while the consumer held no subscription
  pc,           \* each consumer's position in Receive / process
  held,         \* the row each consumer's transaction has locked (0: none)
  out,          \* what the handler returned, and the state and result to write
  invoked,      \* seq -> number of handler invocations
  lastDone,     \* the greatest seq whose terminal state was committed
  swept,        \* deleteExpired has run since the clock last advanced
  backend       \* a backend: its in-memory state, its row, the last operation
                \* on it (op, probe, ret), the row's node_state before it
                \* and how its most recent probe ended (probed)
VARIABLES
  upstreams,    \* the meeting lists SetMeetings may be called with
  meetings,     \* the meetings table: meeting id -> backend_id ("": no row)
  sync          \* the call of SetMeetings: its position, its argument, what
                \* the table and synced_at were when it began, its return
VARIABLES
  mstore,       \* the meeting states: internal meeting id -> state
  rowlock,      \* the handler whose transaction holds the lock of a row
  hd,           \* each event handler: its position in Dispatch, its event,
                \* the state it read, its return, the event it handled last
  gw,           \* the gateway: its position in Create or GetMeetingInfo
  upd,          \* a call of Meeting.Update: m, update, what it returned
  fn            \* a call of a function of the settings, the signing or the
                \* router, or a request of the gateway: its name, its
                \* arguments, what it returned

enqVars  == <<inputs, active, track, nextSeq, enq, notifies>>
conVars  == <<sub, notif, pc, held, out>>
histVars == <<missed, invoked, lastDone, swept>>
qvars == <<now, faults, commands, enqVars, conVars, histVars>>
evars == <<mstore, rowlock, hd, gw, upd, fn>>
uvars == <<upstreams, evars>>
mvars == <<upstreams, meetings, sync, evars>>
vars  == <<qvars, backend, mvars>>
qvars_but_faults == <<now, commands, enqVars, conVars, histVars>>

\* ---------------------------------------------------------------- helpers
\* encoding/json.Marshal: a value that cannot be encoded yields no data and
\* an error.
JsonMarshal(v) ==
  IF v = Unencodable THEN [data |-> Null, err |-> TRUE]
                     ELSE [data |-> <<"json", v>>, err |-> FALSE]

SetMin(S) == CHOOSE x \in S : \A y \in S : x <= y

\* The commands callers pass: Backend.Join queues UpdateMeetingState and
\* leaves Deadline at its zero value; a caller may set any field.
CallerDeadlines == {ZeroTime, 30}
AllInputs == [action : Actions, params : ParamValues, deadline : CallerDeadlines]
JoinInputs == {[action |-> "UpdateMeetingState", params |-> "params",
                deadline |-> ZeroTime]}
NoCmd == [action |-> "", params |-> "", deadline |-> ZeroTime]

SleepSeconds == 1

AfterReceiveErrorNoSleep == "idle"

\* Controller.Start: where the loop goes on after Receive returned an
\* error: the error is logged and the loop sleeps.
AfterReceiveError == "sleep"

AfterEmptyPollReturns == "idle"
AfterWaitTimeoutWaitsAgain == "wait"

\* Receive: where the loop goes on after the wait ran into its timeout
\* (on to process), and after process found no command (dequeued = false:
\* back to the top of the loop and into the next wait).
AfterWaitTimeout == "poll"
AfterEmptyPoll   == "wait"

NoRow == [state |-> "absent", action |-> "", params |-> Null, result |-> Null,
          deadline |-> ZeroTime, created_at |-> ZeroTime]
DeletedRow == [NoRow EXCEPT !.state = "deleted"]
NoEnq == [pc |-> "idle", cmd |-> NoCmd, at |-> 0, seq |-> 0, ret |-> "none"]

Present(s)  == commands[s].state \in {"requested", "success", "error"}
Terminal(s) == commands[s].state \in {"success", "error"}
LockedRows  == {held[c] : c \in Consumers} \ {0}

\* Column defaults of the commands table: state, seq and created_at are not
\* given by the INSERT of Queue.
ColumnDefaults(t) == [state |-> "requested", result |-> Null, created_at |-> t]

QueueDeadlineOfCaller(cmd, t) == cmd.deadline

\* Queue: the deadline written with the row (the command's own Deadline is
\* not read).
QueueDeadline(cmd, t) == t + DeadlineSeconds

\* Queue: the row the INSERT writes for cmd at time t.
QueueRow(cmd, t) ==
  [state      |-> ColumnDefaults(t).state,
   action     |-> cmd.action,
   params     |-> JsonMarshal(cmd.params).data,
   result     |-> ColumnDefaults(t).result,
   deadline   |-> QueueDeadline(cmd, t),
   created_at |-> ColumnDefaults(t).created_at]

ExpiredOrExactlyAMinute(row, t) == t - row.created_at >= ExpireSeconds

\* deleteExpired: now() - created_at > interval '1 minute'
Expired(row, t) == t - row.created_at > ExpireSeconds

\* deleteExpired: the rows the DELETE removes at time t
ExpiredRows(t) == {s \in Seqs : Present(s) /\ Expired(commands[s], t)}

\* process: the rows the SELECT ... FOR UPDATE SKIP LOCKED can return
Claimable == {s \in Seqs : commands[s].state = "requested" /\ s \notin LockedRows}

NextClaimDescending == CHOOSE x \in Claimable : \A y \in Claimable : x >= y

\* process: ORDER BY seq ASC LIMIT 1
NextClaim == SetMin(Claimable)

DeadlineAfterNow(row, t) == row.deadline > t

\* process: cmd.Deadline.Before(time.Now().UTC())
DeadlinePassed(row, t) == row.deadline < t

\* What a CommandHandler can return.
HandlerReturns == {[res |-> "some result", err |-> FALSE],
                   [res |-> "handler failed", err |-> TRUE]}
NoReturn == [res |-> "", err |-> FALSE]
NoOut    == [h |-> NoReturn, state |-> "", result |-> Null]
\* process returned dequeued = false
EmptyPoll == [h |-> NoReturn, state |-> "none dequeued", result |-> Null]

HandlerOutcomeIgnoringErr(h) ==
  [h |-> h, state |-> "success", result |-> JsonMarshal(h.res).data]

\* process: state and result after the handler returned h = (res, err)
HandlerOutcome(h) ==
  [h      |-> h,
   state  |-> IF h.err THEN "error" ELSE "success",
   result |-> JsonMarshal(h.res).data]

\* process: state and result when the deadline has passed
TimedOutOutcome ==
  [h |-> NoReturn, state |-> "error", result |-> JsonMarshal("timedout").data]

Fault   == faults < MaxFaults /\ faults' = faults + 1
NoFault == faults' = faults

\* ------------------------------------------------------------------- Init
QInitWith(ins, cons, tr) ==
  /\ now = 0
  /\ faults = 0
  /\ inputs = ins
  /\ active = cons
  /\ track = tr
  /\ commands = [s \in Seqs |-> NoRow]
  /\ nextSeq = 1
  /\ enq = NoEnq
  /\ notifies = 0
  /\ sub = [c \in Consumers |-> FALSE]
  /\ notif = [c \in Consumers |-> 0]
  /\ missed = [c \in Consumers |-> FALSE]
  /\ pc = [c \in Consumers |-> "idle"]
  /\ held = [c \in Consumers |-> 0]
  /\ out = [c \in Consumers |-> NoOut]
  /\ invoked = [s \in Seqs |-> 0]
  /\ lastDone = 0
  /\ swept = FALSE

\* ---------------------------------------------------------------- backend
\* What the isMeetingRunning request of the probe can come back with:
\* client.Do fails (transport or parse error), or a response arrives.
ProbeResults ==
  {[err |-> TRUE,  msg |-> "connection refused", rc |-> "", key |-> ""],
   [err |-> FALSE, msg |-> "", rc |-> "SUCCESS", key |-> ""],
   [err |-> FALSE, msg |-> "checksum did not match", rc |-> "FAILED",
    key |-> "checksumError"],
   [err |-> FALSE, msg |-> "internal error", rc |-> "ERROR", key |-> "error"]}
NoProbe == [err |-> FALSE, msg |-> "", rc |-> "", key |-> ""]

\* InitBackendState: the defaults are added to the fields left empty.
InitBackendState(init) ==
  [init EXCEPT !.NodeState  = IF @ = "" THEN "init" ELSE @,
               !.AdminState = IF @ = "" THEN "ready" ELSE @]

\* The state the node agent registers for its backend: it names the
\* admin state and leaves the node state empty.
RegisteredState ==
  [NodeState |-> "", AdminState |-> "init", LastError |-> Null,
   Secret |-> "secret1", SyncedAt |-> Null, CreatedAtIsZero |-> TRUE]

\* The values CfgSecret of the node's configuration can have.
Secrets == {"secret1", "secret2"}

NoBackendRow == [exists |-> FALSE, node_state |-> "", admin_state |-> "",
                 last_error |-> Null, secret |-> "", synced_at |-> Null]

\* backendStateFromRow: the in-memory state scanned from a row.
backendStateFromRow(row) ==
  [NodeState |-> row.node_state, AdminState |-> row.admin_state,
   LastError |-> row.last_error, Secret |-> row.secret,
   SyncedAt |-> row.synced_at, CreatedAtIsZero |-> FALSE]

\* BackendState.insert: the row written for a state never saved; last_error
\* is not among the columns.
BackendInsert(st) ==
  [exists |-> TRUE, node_state |-> st.NodeState, admin_state |-> st.AdminState,
   last_error |-> Null, secret |-> st.Secret, synced_at |-> Null]

\* BackendState.update: every column is written from the in-memory state.
BackendUpdate(st, row) ==
  IF row.exists
    THEN [exists |-> TRUE, node_state |-> st.NodeState,
          admin_state |-> st.AdminState, last_error |-> st.LastError,
          secret |-> st.Secret, synced_at |-> st.SyncedAt]
    ELSE row

\* BackendState.Save without a database error: insert or update, then Refresh.
Save(st, row) ==
  LET written == IF st.CreatedAtIsZero THEN BackendInsert(st)
                                       ELSE BackendUpdate(st, row)
  IN [row |-> written, mem |-> backendStateFromRow(written)]

\* loadNodeState: the error message of a probe that did not succeed.
ProbeErrMsg(p) == IF p.err THEN <<p.msg>> ELSE <<p.key, ": ", p.msg>>

ProbeOkAnyResponse(p) == ~p.err

\* loadNodeState: whether the probe counts as a success.
ProbeOk(p) == ~p.err /\ p.rc = "SUCCESS"

ProbedStateAlongEdges(st, p) ==
  IF ProbeOk(p)
    THEN IF st.NodeState \in {"init", "error"}
           THEN [st EXCEPT !.NodeState = "ready", !.LastError = Null]
           ELSE st
    ELSE IF st.NodeState = "ready"
           THEN [st EXCEPT !.NodeState = "error", !.LastError = ProbeErrMsg(p)]
           ELSE st

\* loadNodeState: the in-memory state after the probe came back with p.
ProbedState(st, p) ==
  IF ProbeOk(p)
    THEN [st EXCEPT !.NodeState = "ready", !.LastError = Null]
    ELSE [st EXCEPT !.NodeState = "error", !.LastError = ProbeErrMsg(p)]

\* loadNodeState: what it returns.
ProbeReturn(p) == IF ProbeOk(p) THEN Null ELSE ProbeErrMsg(p)

\* SetMeetings: the in-memory state before its Save, at time t.
SyncedState(st, t) ==
  [st EXCEPT !.NodeState = "ready", !.SyncedAt = <<"time", t>>]

\* ----------------------------------------------------------- meeting sync
ThisBackend  == "b1"
OtherBackend == "b2"
\* Meetings the node of this backend can report, and one of another backend.
UpstreamIds == {"m1", "m2"}
MeetingIds  == UpstreamIds \cup {"m3"}
NoMeetingRow == ""

\* The meetings stored for backend b.
MeetingsOf(tbl, b) == {m \in MeetingIds : tbl[m] = b}

\* ClearMeetings: DELETE FROM meetings WHERE backend_id = b
ClearMeetings(tbl, b) ==
  [m \in MeetingIds |-> IF tbl[m] = b THEN NoMeetingRow ELSE tbl[m]]

\* MeetingState.Save of new states for the meetings in saved, bound to b:
\* the INSERT INTO meetings of MeetingState.insert.
InsertMeetings(tbl, saved, b) ==
  [m \in MeetingIds |-> IF m \in saved THEN b ELSE tbl[m]]

NoSync == [pc |-> "idle", upstream |-> {}, beforeSynced |-> Null,
           tbl |-> [m \in MeetingIds |-> NoMeetingRow], at |-> ZeroTime,
           ret |-> "none"]

\* SetMeetings is called with the list up at time t.
SyncCalled(up, t) ==
  [pc |-> "meetings", upstream |-> up,
   beforeSynced |-> backend.row.synced_at,
   tbl |-> meetings, at |-> t, ret |-> "none"]

MInitWith(ups) ==
  /\ upstreams = ups
  /\ meetings = [m \in MeetingIds |->
                   IF m \in UpstreamIds THEN NoMeetingRow ELSE OtherBackend]
  /\ sync = NoSync

\* configToBackendState has no state loaded.
NoConfigState == [loaded |-> FALSE, st |-> InitBackendState(RegisteredState)]

\* --------------------------------------------------------- meeting events
InternalIds == {"x1", "x2"}
Users       == {"u1", "u2"}
Handlers    == {"h1", "h2"}
MeetingEvents == {"MeetingCreated", "MeetingEnded", "MeetingDestroyed"}
UserEvents    == {"UserJoinedMeeting", "UserLeftMeeting"}
NoUser  == "-"
\* bbb.Event: its type, its InternalMeetingID and, for the user events, the
\* InternalUserID of its attendee.
Events == [type : MeetingEvents, id : InternalIds, user : {NoUser}]
            \cup [type : UserEvents, id : InternalIds, user : Users]
NoEvent == [type |-> "none", id |-> "", user |-> NoUser]

\* The attendee lists a stored meeting can hold, longest MaxAttendees.
AttendeeLists == UNION {[1..n -> Users] : n \in 0..MaxAttendees}
\* A meeting state: Meeting.Running and the InternalUserID of each of
\* Meeting.Attendees, in order. NoState is the nil *MeetingState, and the
\* absent row.
NoState == [exists |-> FALSE, running |-> FALSE, attendees |-> <<>>]
StateOf(running, attendees) ==
  [exists |-> TRUE, running |-> running, attendees |-> attendees]

MeetingCreatedDeltaNotRunning(st) == st

\* onMeetingCreated: mstate.Meeting.Running = true
MeetingCreatedDelta(st) == [st EXCEPT !.running = TRUE]

\* onMeetingEnded: Running = false, Attendees = []
MeetingEndedDelta(st) == [st EXCEPT !.running = FALSE, !.attendees = <<>>]

\* onUserJoinedMeeting: append(Attendees, e.Attendee); a nil list is []
UserJoinedDelta(st, u) == [st EXCEPT !.attendees = Append(@, u)]

\* onUserLeftMeeting: the attendees whose InternalUserID is not the
\* event's (a nil list returns early, which stores as much as filtering []).
UserLeftDelta(st, u) ==
  [st EXCEPT !.attendees = SelectSeq(@, LAMBDA a : a # u)]

\* What the handler of e saves, having read st.
HandlerDelta(e, st) ==
  CASE e.type = "MeetingCreated"    -> MeetingCreatedDelta(st)
    [] e.type = "MeetingEnded"      -> MeetingEndedDelta(st)
    [] e.type = "UserJoinedMeeting" -> UserJoinedDelta(st, e.user)
    [] e.type = "UserLeftMeeting"   -> UserLeftDelta(st, e.user)
    [] OTHER                        -> st

\* A handler: where it is in Dispatch, its event, the state it read, what
\* it returned, whether no row was there when onMeetingCreated began (kept
\* once it has saved),
\* whether the stream delivers the event twice, whether this is the second
\* delivery and the row the first handling left.
NoHandler == [pc |-> "idle", ev |-> NoEvent, mstate |-> NoState,
              ret |-> "none", early |-> FALSE, twice |-> FALSE,
              again |-> FALSE, first |-> NoState]
\* The meetings getMeetingInfo is answered with.
Snapshots == {StateOf(TRUE, <<>>), StateOf(TRUE, <<"u1">>)}
NoGateway == [pc |-> "idle", op |-> "none", id |-> "", found |-> FALSE,
              snapshot |-> NoState, ret |-> "none"]

\* bbb.Meeting, by the fields Update compares and two of those it copies.
MeetingNames  == {"a", "b"}
MeetingValues ==
  [MeetingID : MeetingNames, InternalMeetingID : InternalIds,
   Running : BOOLEAN, ParticipantCount : 0..MaxCount]
NoMeeting == [MeetingID |-> "", InternalMeetingID |-> "",
              Running |-> FALSE, ParticipantCount |-> 0]
NoUpd == [called |-> FALSE, m |-> NoMeeting, update |-> NoMeeting,
          before |-> NoMeeting, err |-> "none"]

\* Meeting.Update: m and the error afterwards.
MeetingUpdateAnyInternalID(m, update) ==
  IF m.MeetingID # update.MeetingID
    THEN [m |-> m, err |-> "meeting ids do not match for update"]
    ELSE [m |-> update, err |-> "nil"]

MeetingUpdate(m, update) ==
  IF m.MeetingID # update.MeetingID
    THEN [m |-> m, err |-> "meeting ids do not match for update"]
    ELSE IF m.InternalMeetingID # update.InternalMeetingID
      THEN [m |-> m, err |-> "internal ids do not match for update"]
      ELSE [m |-> update, err |-> "nil"]

\* The stores the handlers can find: per meeting no row, or a row with
\* nobody or one attendee in it.
InitialRows == {NoState} \cup
  {StateOf(r, a) : r \in BOOLEAN, a \in {<<>>, <<"u1">>}}

\* ---------------------------------------------------------------- strings
\* The bytes the strings of the model are made of, in ascending order.
Alphabet == <<" ", "%", "&", "+", "2", "3", "5", "6", "=", "B", "D",
              "a", "b", "c", "e", "h", "k", "m", "s", "u">>
Code(c) == CHOOSE i \in 1..Len(Alphabet) : Alphabet[i] = c

RECURSIVE StrLess(_, _)
\* x < y of two Go strings: byte by byte.
StrLess(x, y) ==
  IF x = <<>> THEN y # <<>>
  ELSE IF y = <<>> THEN FALSE
  ELSE IF Head(x) = Head(y) THEN StrLess(Tail(x), Tail(y))
  ELSE Code(Head(x)) < Code(Head(y))

RECURSIVE InsertSorted(_, _)
InsertSorted(x, list) ==
  IF list = <<>> THEN <<x>>
  ELSE IF StrLess(Head(list), x) THEN <<Head(list)>> \o InsertSorted(x, Tail(list))
  ELSE <<x>> \o list

RECURSIVE SortStrings(_)
\* sort.Strings
SortStrings(list) ==
  IF list = <<>> THEN <<>>
  ELSE InsertSorted(Head(list), SortStrings(Tail(list)))

RECURSIVE StringsJoin(_, _)
\* strings.Join
StringsJoin(list, sep) ==
  IF list = <<>> THEN <<>>
  ELSE IF Len(list) = 1 THEN Head(list)
  ELSE Head(list) \o sep \o StringsJoin(Tail(list), sep)

\* --------------------------------------------------------------- settings
\* A Tags value is a slice: nil, or a list of labels.
NilTags == [nil |-> TRUE, list |-> <<>>]
TagsOf(list) == [nil |-> FALSE, list |-> list]
\* The labels a tag list can hold.
Labels == {<<"a">>, <<"b">>, <<"a", " ", "b">>}
\* Tags: the lists of at most MaxTags labels, no label twice.
NoLabelTwice(l) == \A i, j \in 1..Len(l) : l[i] = l[j] => i = j
TagLists ==
  {TagsOf(l) : l \in {x \in UNION {[1..n -> Labels] : n \in 0..MaxTags} :
                        NoLabelTwice(x)}}
LabelSet(t) == {t.list[i] : i \in 1..Len(t.list)}

\* Tags.Eq: both lists are sorted in place and their joins compared.
TagsEq(t, other) ==
  LET ts == [t EXCEPT !.list = SortStrings(t.list)]
      os == [other EXCEPT !.list = SortStrings(other.list)]
  IN [ret |-> StringsJoin(ts.list, <<" ">>) = StringsJoin(os.list, <<" ">>),
      t |-> ts, other |-> os]

\* BackendSettings.Merge: the settings and the patch afterwards, and the
\* returned flag.
BackendSettingsMerge(st, update) ==
  IF ~update.Tags.nil
    THEN LET eq == TagsEq(st.Tags, update.Tags) IN
         IF ~eq.ret
           THEN [s |-> [Tags |-> eq.other], update |-> [Tags |-> eq.other],
                 ret |-> TRUE]
           ELSE [s |-> [Tags |-> eq.t], update |-> [Tags |-> eq.other],
                 ret |-> FALSE]
    ELSE [s |-> st, update |-> update, ret |-> FALSE]

\* The default presentations a frontend can configure.
NilPresentation == [nil |-> TRUE, URL |-> "", Force |-> FALSE]
Presentations == {[nil |-> FALSE, URL |-> "a", Force |-> FALSE],
                  [nil |-> FALSE, URL |-> "b", Force |-> TRUE]}

\* FrontendSettings.Merge: the settings and the patch afterwards, and the
\* returned flag.
FrontendSettingsMerge(st, update) ==
  LET tags == BackendSettingsMerge([Tags |-> st.RequiredTags],
                                   [Tags |-> update.RequiredTags])
  IN [s |-> [RequiredTags |-> tags.s.Tags,
             DefaultPresentation |->
               IF ~update.DefaultPresentation.nil
                 THEN update.DefaultPresentation
                 ELSE st.DefaultPresentation],
      update |-> [RequiredTags |-> tags.update.Tags,
                  DefaultPresentation |-> update.DefaultPresentation],
      ret |-> tags.ret \/ ~update.DefaultPresentation.nil]

BackendSettingsValues == [Tags : TagLists \cup {NilTags}]
FrontendSettingsValues ==
  [RequiredTags : TagLists \cup {NilTags},
   DefaultPresentation : Presentations \cup {NilPresentation}]

\* ---------------------------------------------------------------- signing
ChecksumKey == <<"c", "h", "e", "c", "k", "s", "u", "m">>
ParamKeys == {<<"a">>, <<"b">>, ChecksumKey}
QueryValues == {<<"2">>, <<"a", " ", "b">>}
NoKeyTwice(l) == \A i, j \in 1..Len(l) : l[i].key = l[j].key => i = j
\* Params: a map, given by its entries in the order they were added; nil or
\* of at most MaxParams entries.
NilParams == [nil |-> TRUE, list |-> <<>>]
ParamsOf(list) == [nil |-> FALSE, list |-> list]
ParamMaps ==
  {NilParams} \cup
  {ParamsOf(l) :
     l \in {x \in UNION {[1..n -> [key : ParamKeys, value : QueryValues]] :
                           n \in 0..MaxParams} : NoKeyTwice(x)}}
Mapping(p) == {p.list[i] : i \in 1..Len(p.list)}
WithoutChecksum(p) == {e \in Mapping(p) : e.key # ChecksumKey}

\* url.QueryEscape of one byte.
EscapeByte(c) ==
  CASE c = " " -> <<"+">>
    [] c = "+" -> <<"%", "2", "B">>
    [] c = "&" -> <<"%", "2", "6">>
    [] c = "=" -> <<"%", "3", "D">>
    [] c = "%" -> <<"%", "2", "5">>
    [] OTHER -> <<c>>

RECURSIVE QueryEscape(_)
QueryEscape(str) ==
  IF str = <<>> THEN <<>> ELSE EscapeByte(Head(str)) \o QueryEscape(Tail(str))

Signed(list) == SelectSeq(list, LAMBDA e : e.key # ChecksumKey)
KeysOf(list) == [i \in 1..Len(list) |-> list[i].key]
ValueOf(list, k) == list[CHOOSE i \in 1..Len(list) : list[i].key = k].value
KeyValue(list, k) == QueryEscape(k) \o <<"=">> \o QueryEscape(ValueOf(list, k))

ParamsStringAsAdded(p) ==
  StringsJoin([i \in 1..Len(Signed(p.list)) |->
                 KeyValue(p.list, Signed(p.list)[i].key)], <<"&">>)

\* Params.String: the key=value pairs without the checksum, in ascending
\* order of the keys, joined by "&"; "" for a nil map.
ParamsString(p) ==
  LET keys == SortStrings(KeysOf(Signed(p.list)))
  IN StringsJoin([i \in 1..Len(keys) |-> KeyValue(p.list, keys[i])], <<"&">>)

\* A hex digest: the function and what it was computed over.
Sha256Hex(input) == <<"sha256">> \o input
Sha1Hex(input) == <<"sha1">> \o input

Resources == {<<"e", "c", "h", "o">>, <<"s", "u", "m">>}
SigningSecrets == {<<"s", "2">>, <<"s", "3">>}

\* Request.Sign: the digest of the resource, the parameters and the secret.
Sign(resource, params, secret) ==
  Sha256Hex(resource \o ParamsString(params) \o secret)

\* Request.Verify: nil when the checksum of the request is the expected one.
Verify(resource, params, secret, checksum) ==
  checksum = Sha1Hex(resource \o ParamsString(params) \o secret)

\* The checksums a request can come with.
Checksums(resource, params, secret) ==
  {Sign(resource, params, secret),
   Sha1Hex(resource \o ParamsString(params) \o secret),
   <<"f", "o", "o", "b", "4", "r">>}

\* ----------------------------------------------------------------- router
\* The backends of the cluster, in ascending order of their ids.
RouterBackends == <<"b1", "b2">>
IdRank(id) == CHOOSE i \in 1..Len(RouterBackends) : RouterBackends[i] = id
RouteTags == {t \in TagLists : LabelSet(t) \subseteq {<<"a">>, <<"b">>}}
\* A candidate: a backend with its tags and its load.
CandidatesOf(id) ==
  [id : {id}, tags : RouteTags, count : 0..MaxLoad, latency : 0..MaxLatency]
\* The meeting of the request is bound to a backend, or to none.
NoBackend == "none"
RouterRequests ==
  [resource : {"create", "join"}, required : RouteTags,
   bound : {NoBackend} \cup {RouterBackends[i] : i \in 1..Len(RouterBackends)}]
Ids(list) == {list[i].id : i \in 1..Len(list)}

\* RequiredTags: drops the backends whose tags do not cover the required
\* tags of the frontend of the request.
RequiredTags(backends, req) ==
  SelectSeq(backends,
            LAMBDA b : LabelSet(req.required) \subseteq LabelSet(b.tags))

LoadLess(a, b) ==
  \/ a.count < b.count
  \/ a.count = b.count /\ a.latency < b.latency
  \/ a.count = b.count /\ a.latency = b.latency /\ IdRank(a.id) < IdRank(b.id)

RECURSIVE InsertByLoad(_, _)
InsertByLoad(x, list) ==
  IF list = <<>> THEN <<x>>
  ELSE IF LoadLess(Head(list), x) THEN <<Head(list)>> \o InsertByLoad(x, Tail(list))
  ELSE <<x>> \o list

RECURSIVE SortLoad(_, _)
\* SortLoad: ascending by participant count, then latency, then id.
SortLoad(backends, req) ==
  IF backends = <<>> THEN <<>>
  ELSE InsertByLoad(Head(backends), SortLoad(Tail(backends), req))

\* StickyMeeting: the backend of the meeting first, when it is a candidate.
StickyMeeting(backends, req) ==
  SelectSeq(backends, LAMBDA b : b.id = req.bound)
    \o SelectSeq(backends, LAMBDA b : b.id # req.bound)

Middleware(name, backends, req) ==
  CASE name = "SortLoad" -> SortLoad(backends, req)
    [] name = "RequiredTags" -> RequiredTags(backends, req)
    [] name = "StickyMeeting" -> StickyMeeting(backends, req)

RouterUseSortLoadOnly == <<"SortLoad">>

\* The middlewares of the router, in the order of the calls of router.Use.
RouterUse == <<"SortLoad", "RequiredTags">>

RECURSIVE Chain(_, _, _)
\* The chain: a middleware wraps the ones used before it, so the one used
\* last sees the candidates first.
Chain(use, backends, req) ==
  IF use = <<>> THEN backends
  ELSE Chain(SubSeq(use, 1, Len(use) - 1),
             Middleware(use[Len(use)], backends, req), req)

\* Router.Lookup: the candidates after the chain.
Lookup(backends, req) == Chain(RouterUse, backends, req)

\* ---------------------------------------------------------------- gateway
\* The frontend with its secret, and the key no frontend has.
NoFrontend == "none"
FrontendSecret == <<"s", "2">>
OtherSecret == <<"s", "3">>
\* The backend the request is forwarded to: its host and its secret.
BackendHost == <<"h">>
BackendSecret == <<"s", "5">>
GatewayResources == {"join", "end", "getMeetings"}
\* The parameters of a request on a meeting.
MeetingParams(id) == ParamsOf(<<[key |-> <<"m">>, value |-> <<id>>]>>)
\* The checksums a request of a frontend comes with.
RequestChecksums(resource, id) ==
  Checksums(<<resource>>, MeetingParams(id), FrontendSecret) \cup
  {Sha1Hex(<<resource>> \o ParamsString(MeetingParams(id)) \o OtherSecret)}

\* Request.URL: host, resource, the canonical parameters and the checksum
\* computed with the secret of the backend.
RequestURL(host, resource, params, secret) ==
  host \o resource \o <<"?">> \o ParamsString(params)
    \o (IF ParamsString(params) = <<>> THEN <<>> ELSE <<"&">>)
    \o <<"checksum=">> \o Sign(resource, params, secret)

AuthenticatedKnownFrontend(req) == req.frontend # NoFrontend

\* Authenticate: the frontend is known and the checksum of the request is
\* the one computed with its secret.
Authenticated(req) ==
  /\ req.frontend # NoFrontend
  /\ Verify(<<req.resource>>, MeetingParams(req.id), FrontendSecret,
            req.checksum)

\* The command Backend.Join queues.
UpdateMeetingState(id) ==
  [action |-> "UpdateMeetingState", params |-> id, deadline |-> ZeroTime]

RedirectFallback == "<html><body>redirect fallback.</html>"
NoResponse == [stage |-> "auth", ret |-> "none", status |-> 0,
               location |-> <<>>, body |-> "", returncode |-> "",
               meetings |-> {}, contacted |-> FALSE, queued |-> 0, seq |-> 0]
\* A request of the gateway: the n-th, after the meeting `ended` was ended.
DispatchOf(n, ended, resource, frontend, id, sum) ==
  [name |-> "Dispatch", done |-> FALSE,
   args |-> [n |-> n, ended |-> ended, resource |-> resource,
             frontend |-> frontend, id |-> id, checksum |-> sum],
   res |-> NoResponse]

NoCall == [name |-> "none", done |-> FALSE, args |-> <<>>, res |-> <<>>]
CallOf(name, args) == [name |-> name, done |-> FALSE, args |-> args, res |-> <<>>]
Returned(res) == [fn EXCEPT !.done = TRUE, !.res = res]

EStart(stores, upds) ==
  /\ mstore \in stores
  /\ rowlock = [x \in InternalIds |-> "none"]
  /\ hd = [h \in Handlers |-> NoHandler]
  /\ gw = NoGateway
  /\ upd \in upds

EInitWith(stores, upds) == fn = NoCall /\ EStart(stores, upds)

NoRows == [x \in InternalIds |-> NoState]
EIdle  == EInitWith({NoRows}, {NoUpd})

BackendStart ==
  backend = [mem |-> InitBackendState(RegisteredState), row |-> NoBackendRow, op |-> "none",
             probe |-> NoProbe, ret |-> Null, from |-> "",
                probed |-> "never", cfg |-> NoConfigState]

BInitWith(ups) ==
  /\ MInitWith(ups)
  /\ EIdle
  /\ BackendStart

BInit == BInitWith({{}})

Init       == BInit /\ \E cons \in {{"c1"}, Consumers} :
                          QInitWith(JoinInputs, cons, FALSE)
SingleInit == BInit /\ QInitWith(JoinInputs, {"c1"}, TRUE)
EnqInit    == BInit /\ QInitWith(AllInputs, {}, FALSE)
BackInit   == BInit /\ QInitWith(JoinInputs, {}, FALSE)

\* --------------------------------------------------------------- the clock
Tick ==
  /\ now + TickSeconds <= MaxTicks * TickSeconds
  /\ now' = now + TickSeconds
  /\ swept' = FALSE
  /\ UNCHANGED <<faults, commands, enqVars, conVars, missed, invoked, lastDone,
                 backend, mvars>>

\* ------------------------------------------------------------------ Queue
\* Queue(cmd): the INSERT succeeds.
Queue_Insert ==
  /\ enq.pc = "idle"
  /\ nextSeq <= MaxCommands
  /\ \E cmd \in inputs :
       /\ commands' = [commands EXCEPT ![nextSeq] = QueueRow(cmd, now)]
       /\ enq' = [pc |-> "notify", cmd |-> cmd, at |-> now, seq |-> nextSeq,
                  ret |-> "none"]
  /\ nextSeq' = nextSeq + 1
  /\ NoFault
  /\ UNCHANGED <<now, inputs, active, track, notifies, conVars, histVars, backend, mvars>>

\* Queue(cmd): the INSERT fails: the error is returned.
Queue_InsertFails ==
  /\ enq.pc = "idle"
  /\ nextSeq <= MaxCommands
  /\ Fault
  /\ enq' = [NoEnq EXCEPT !.ret = "err"]
  /\ UNCHANGED <<now, commands, inputs, active, track, nextSeq, notifies, conVars,
                 histVars, backend, mvars>>

\* Queue(cmd): NOTIFY commands_queue reaches every connection that listens.
Queue_Notify ==
  /\ enq.pc = "notify"
  /\ notifies' = notifies + 1
  /\ notif' = [c \in Consumers |-> IF sub[c] THEN notif[c] + 1 ELSE notif[c]]
  /\ missed' = [c \in Consumers |->
                  missed[c] \/ (track /\ c \in active /\ ~sub[c])]
  /\ enq' = [NoEnq EXCEPT !.ret = "nil"]
  /\ NoFault
  /\ UNCHANGED <<now, commands, inputs, active, track, nextSeq, sub, pc, held, out,
                 invoked, lastDone, swept, backend, mvars>>

\* Queue(cmd): the NOTIFY fails: the row stays, the error is returned.
Queue_NotifyFails ==
  /\ enq.pc = "notify"
  /\ Fault
  /\ enq' = [NoEnq EXCEPT !.ret = "err"]
  /\ UNCHANGED <<now, commands, inputs, active, track, nextSeq, notifies, conVars,
                 histVars, backend, mvars>>

\* ---------------------------------------------------------------- Receive
\* Controller.Start calls Receive (again); at the top of the loop Receive
\* subscribes on demand (LISTEN on a fresh connection) and waits.
Receive_Call(c) ==
  /\ c \in active
  /\ pc[c] = "idle"
  /\ sub' = [sub EXCEPT ![c] = TRUE]
  /\ notif' = [notif EXCEPT ![c] = IF sub[c] THEN @ ELSE 0]
  /\ pc' = [pc EXCEPT ![c] = "wait"]
  /\ NoFault
  /\ UNCHANGED <<now, commands, enqVars, held, out, histVars, backend, mvars>>

\* subscribe fails: Receive returns the error.
Receive_SubscribeFails(c) ==
  /\ c \in active
  /\ pc[c] = "idle"
  /\ ~sub[c]
  /\ Fault
  /\ pc' = [pc EXCEPT ![c] = AfterReceiveError]
  /\ UNCHANGED <<now, commands, enqVars, sub, notif, held, out, histVars,
                 backend, mvars>>

\* WaitForNotification returns a notification.
Receive_Notified(c) ==
  /\ pc[c] = "wait"
  /\ notif[c] > 0
  /\ notif' = [notif EXCEPT ![c] = @ - 1]
  /\ pc' = [pc EXCEPT ![c] = "poll"]
  /\ out' = [out EXCEPT ![c] = NoOut]
  /\ NoFault
  /\ UNCHANGED <<now, commands, enqVars, sub, held, histVars, backend, mvars>>

\* WaitForNotification runs into the 10 s timeout: the subscription is
\* released and the loop goes on to process.
Receive_Timeout(c) ==
  /\ pc[c] = "wait"
  /\ notif[c] = 0
  /\ sub' = [sub EXCEPT ![c] = (AfterWaitTimeout = "wait")]
  /\ pc' = [pc EXCEPT ![c] = AfterWaitTimeout]
  /\ out' = [out EXCEPT ![c] = NoOut]
  /\ NoFault
  /\ UNCHANGED <<now, commands, enqVars, notif, held, histVars, backend, mvars>>

\* WaitForNotification fails otherwise: the subscription is released and
\* Receive returns the error.
Receive_WaitFails(c) ==
  /\ pc[c] = "wait"
  /\ Fault
  /\ sub' = [sub EXCEPT ![c] = FALSE]
  /\ notif' = [notif EXCEPT ![c] = 0]
  /\ pc' = [pc EXCEPT ![c] = AfterReceiveError]
  /\ out' = [out EXCEPT ![c] = NoOut]
  /\ UNCHANGED <<now, commands, enqVars, held, histVars, backend, mvars>>

\* ---------------------------------------------------------------- process
\* Begin or the SELECT fails: Receive returns the error.
process_BeginFails(c) ==
  /\ pc[c] = "poll"
  /\ Fault
  /\ pc' = [pc EXCEPT ![c] = AfterReceiveError]
  /\ UNCHANGED <<now, commands, enqVars, sub, notif, held, out, histVars,
                 backend, mvars>>

\* The SELECT returns no row: dequeued = false, and Receive goes on with its
\* loop: it subscribes on demand and waits again.
process_Empty(c) ==
  /\ pc[c] = "poll"
  /\ Claimable = {}
  /\ pc' = [pc EXCEPT ![c] = AfterEmptyPoll]
  /\ sub' = [sub EXCEPT ![c] = IF AfterEmptyPoll = "wait" THEN TRUE ELSE @]
  /\ notif' = [notif EXCEPT ![c] = IF sub[c] THEN @ ELSE 0]
  /\ out' = [out EXCEPT ![c] = EmptyPoll]
  /\ NoFault
  /\ UNCHANGED <<now, commands, enqVars, held, histVars, backend, mvars>>

\* The SELECT returns and locks a row; the deadline is checked.
process_Claim(c) ==
  /\ pc[c] = "poll"
  /\ Claimable # {}
  /\ LET s == NextClaim IN
       /\ held' = [held EXCEPT ![c] = s]
       /\ IF DeadlinePassed(commands[s], now)
            THEN /\ out' = [out EXCEPT ![c] = TimedOutOutcome]
                 /\ pc' = [pc EXCEPT ![c] = "write"]
            ELSE /\ pc' = [pc EXCEPT ![c] = "handle"]
                 /\ UNCHANGED out
  /\ NoFault
  /\ UNCHANGED <<now, commands, enqVars, sub, notif, histVars, backend, mvars>>

\* handler(cmd) is called and returns.
process_Handler(c) ==
  /\ pc[c] = "handle"
  /\ \E h \in HandlerReturns :
       out' = [out EXCEPT ![c] = HandlerOutcome(h)]
  /\ invoked' = [invoked EXCEPT ![held[c]] = @ + 1]
  /\ pc' = [pc EXCEPT ![c] = "write"]
  /\ NoFault
  /\ UNCHANGED <<now, commands, enqVars, sub, notif, held, missed, lastDone,
                 swept, backend, mvars>>

\* The UPDATE and the Commit succeed: dequeued = true, Receive returns nil.
process_Commit(c) ==
  /\ pc[c] = "write"
  /\ commands' = [commands EXCEPT ![held[c]] =
                    [@ EXCEPT !.state = out[c].state, !.result = out[c].result]]
  /\ lastDone' = IF held[c] > lastDone THEN held[c] ELSE lastDone
  /\ held' = [held EXCEPT ![c] = 0]
  /\ out' = [out EXCEPT ![c] = NoOut]
  /\ pc' = [pc EXCEPT ![c] = "idle"]
  /\ missed' = [missed EXCEPT ![c] = FALSE]
  /\ NoFault
  /\ UNCHANGED <<now, enqVars, sub, notif, invoked, swept, backend, mvars>>

\* Marshalling the result, the UPDATE or the Commit fails: the deferred
\* Rollback releases the row unchanged, Receive returns the error.
process_WriteFails(c) ==
  /\ pc[c] = "write"
  /\ Fault
  /\ held' = [held EXCEPT ![c] = 0]
  /\ out' = [out EXCEPT ![c] = NoOut]
  /\ pc' = [pc EXCEPT ![c] = AfterReceiveError]
  /\ UNCHANGED <<now, commands, enqVars, sub, notif, histVars, backend, mvars>>

\* ------------------------------------------------------------- controller
\* Controller.Start: time.Sleep returns after SleepSeconds, and the loop
\* calls Receive again. The sleep is shorter than a tick of the clock.
Controller_Sleep(c) ==
  /\ pc[c] = "sleep"
  /\ pc' = [pc EXCEPT ![c] = "idle"]
  /\ NoFault
  /\ UNCHANGED <<now, commands, enqVars, sub, notif, held, out, histVars,
                 backend, mvars>>

\* ----------------------------------------------------------- housekeeping
\* Start: deleteExpired runs its DELETE, which completes once no row it
\* deletes is locked by a transaction.
deleteExpired ==
  /\ ExpiredRows(now) \cap LockedRows = {}
  /\ commands' = [s \in Seqs |-> IF s \in ExpiredRows(now) THEN DeletedRow
                                                           ELSE commands[s]]
  /\ swept' = track
  /\ NoFault
  /\ UNCHANGED <<now, enqVars, conVars, missed, invoked, lastDone, backend, mvars>>

\* ------------------------------------------------------- backend actions
\* Registration: the new state is saved for the first time.
Backend_Register ==
  /\ backend.mem.CreatedAtIsZero
  /\ LET sv == Save(backend.mem, backend.row) IN
       backend' = [backend EXCEPT !.mem = sv.mem, !.row = sv.row,
                                  !.op = "register", !.probe = NoProbe,
                                  !.ret = Null,
                                !.from = backend.row.node_state]
  /\ NoFault
  /\ UNCHANGED <<qvars_but_faults, mvars>>

\* Controller.GetBackends: the agent's state is read from the row.
GetBackends ==
  /\ backend.row.exists
  /\ backend.mem # backendStateFromRow(backend.row)
  /\ backend' = [backend EXCEPT !.mem = backendStateFromRow(backend.row),
                                !.op = "load", !.probe = NoProbe, !.ret = Null,
                                !.from = backend.row.node_state]
  /\ NoFault
  /\ UNCHANGED <<qvars_but_faults, mvars>>

\* loadNodeState: the probe comes back with p, the state is set, and the
\* deferred Save writes it.
loadNodeState ==
  /\ ~backend.mem.CreatedAtIsZero
  /\ \E p \in ProbeResults :
       LET sv == Save(ProbedState(backend.mem, p), backend.row) IN
         backend' = [mem |-> sv.mem, row |-> sv.row, op |-> "probe",
                     probe |-> p, ret |-> ProbeReturn(p),
                     from |-> backend.row.node_state,
                     probed |-> IF ProbeOk(p) THEN "ok" ELSE "failed",
                     cfg |-> backend.cfg]
  /\ NoFault
  /\ UNCHANGED <<qvars_but_faults, mvars>>

\* loadNodeState, and the update of the deferred Save fails: the error of
\* Save is dropped, the row stays, the state is not refreshed.
loadNodeState_SaveFails ==
  /\ ~backend.mem.CreatedAtIsZero
  /\ Fault
  /\ \E p \in ProbeResults :
       backend' = [backend EXCEPT !.mem = ProbedState(backend.mem, p),
                                  !.op = "probe_unsaved", !.probe = p,
                                  !.ret = ProbeReturn(p),
                                !.from = backend.row.node_state,
                                !.probed = IF ProbeOk(p) THEN "ok" ELSE "failed"]
  /\ UNCHANGED <<qvars_but_faults, mvars>>

\* SetMeetings is called with a meeting list: Begin, then ClearMeetings
\* deletes the meetings of the backend on the pool's connection.
SetMeetings_Clear ==
  /\ ~backend.mem.CreatedAtIsZero
  /\ sync.pc = "idle"
  /\ \E up \in upstreams : sync' = SyncCalled(up, now)
  /\ meetings' = ClearMeetings(meetings, ThisBackend)
  /\ NoFault
  /\ UNCHANGED <<qvars_but_faults, backend, uvars>>

\* SetMeetings, and Begin or ClearMeetings fails: it returns the error
\* before the state is touched.
SetMeetings_Fails ==
  /\ ~backend.mem.CreatedAtIsZero
  /\ sync.pc = "idle"
  /\ Fault
  /\ \E up \in upstreams :
       sync' = [SyncCalled(up, now) EXCEPT !.pc = "idle", !.ret = "err"]
  /\ backend' = [backend EXCEPT !.op = "sync_failed", !.probe = NoProbe,
                                !.ret = <<"error">>,
                                !.from = backend.row.node_state]
  /\ UNCHANGED <<qvars_but_faults, uvars, meetings>>

\* SetMeetings: a meeting state is saved for each meeting of the list; the
\* error of a Save that fails is dropped and the loop goes on.
SetMeetings_SaveMeetings ==
  /\ sync.pc = "meetings"
  /\ \E saved \in SUBSET sync.upstream :
       /\ IF saved = sync.upstream THEN NoFault ELSE Fault
       /\ meetings' = InsertMeetings(meetings, saved, ThisBackend)
  /\ sync' = [sync EXCEPT !.pc = "state"]
  /\ UNCHANGED <<qvars_but_faults, backend, uvars>>

\* SetMeetings: after the meetings are replaced the node state is set to
\* ready, synced_at to the time of the call, and the state is saved.
SetMeetings ==
  /\ sync.pc = "state"
  /\ LET sv == Save(SyncedState(backend.mem, sync.at), backend.row) IN
       backend' = [backend EXCEPT !.mem = sv.mem, !.row = sv.row,
                                  !.op = "sync", !.probe = NoProbe,
                                  !.ret = Null,
                                  !.from = backend.row.node_state]
  /\ sync' = [sync EXCEPT !.pc = "commit"]
  /\ NoFault
  /\ UNCHANGED <<qvars_but_faults, uvars, meetings>>

\* SetMeetings, and the update of its Save fails: the error of Save is
\* dropped, the row stays, the state is not refreshed.
SetMeetings_SaveFails ==
  /\ sync.pc = "state"
  /\ Fault
  /\ backend' = [backend EXCEPT !.mem = SyncedState(backend.mem, sync.at),
                                !.op = "sync_unsaved", !.probe = NoProbe,
                                !.ret = Null,
                                !.from = backend.row.node_state]
  /\ sync' = [sync EXCEPT !.pc = "commit"]
  /\ UNCHANGED <<qvars_but_faults, uvars, meetings>>

\* SetMeetings: the Commit of its (empty) transaction succeeds, it returns
\* nil.
SetMeetings_Commit ==
  /\ sync.pc = "commit"
  /\ sync' = [sync EXCEPT !.pc = "idle", !.ret = "nil"]
  /\ NoFault
  /\ UNCHANGED <<qvars_but_faults, backend, uvars, meetings>>

\* SetMeetings: the Commit fails, it returns the error.
SetMeetings_CommitFails ==
  /\ sync.pc = "commit"
  /\ Fault
  /\ sync' = [sync EXCEPT !.pc = "idle", !.ret = "err"]
  /\ UNCHANGED <<qvars_but_faults, backend, uvars, meetings>>

\* The operator stops the backend: the row's node_state becomes stopped.
AdminStop ==
  /\ backend.row.exists
  /\ backend.row.node_state # "stopped"
  /\ backend' = [backend EXCEPT !.row.node_state = "stopped", !.op = "stop",
                                !.probe = NoProbe, !.ret = Null,
                                !.from = backend.row.node_state]
  /\ NoFault
  /\ UNCHANGED <<qvars_but_faults, mvars>>

\* configToBackendState: the backend of this node is read from its row.
Config_Load ==
  /\ backend.row.exists
  /\ ~backend.cfg.loaded
  /\ backend' = [backend EXCEPT
                   !.cfg = [loaded |-> TRUE,
                            st |-> backendStateFromRow(backend.row)],
                   !.op = "config_load", !.probe = NoProbe, !.ret = Null,
                   !.from = backend.row.node_state]
  /\ NoFault
  /\ UNCHANGED <<qvars_but_faults, mvars>>

\* configToBackendState: the secret of the configuration is the one of the
\* state read, nothing is saved.
Config_SecretUpToDate ==
  /\ backend.cfg.loaded
  /\ backend' = [backend EXCEPT
                   !.cfg = NoConfigState,
                   !.op = "config_same", !.probe = NoProbe, !.ret = Null,
                   !.from = backend.row.node_state]
  /\ NoFault
  /\ UNCHANGED <<qvars_but_faults, mvars>>

\* configToBackendState: the secret of the configuration differs from the
\* one of the state read; it is set and the state is saved.
Config_SaveSecret ==
  /\ backend.cfg.loaded
  /\ \E secret \in Secrets \ {backend.cfg.st.Secret} :
       LET sv == Save([backend.cfg.st EXCEPT !.Secret = secret], backend.row) IN
         backend' = [backend EXCEPT
                       !.row = sv.row, !.cfg = NoConfigState,
                       !.op = "config_secret", !.probe = NoProbe,
                       !.ret = Null, !.from = backend.row.node_state]
  /\ NoFault
  /\ UNCHANGED <<qvars_but_faults, mvars>>

\* configToBackendState: Save or Commit fails, the row stays.
Config_SaveFails ==
  /\ backend.cfg.loaded
  /\ Fault
  /\ backend' = [backend EXCEPT
                   !.cfg = NoConfigState,
                   !.op = "config_failed", !.probe = NoProbe,
                   !.ret = <<"error">>, !.from = backend.row.node_state]
  /\ UNCHANGED <<qvars_but_faults, mvars>>

BNext ==
  \/ Config_Load
  \/ Config_SecretUpToDate
  \/ Config_SaveSecret
  \/ Config_SaveFails
  \/ Backend_Register
  \/ GetBackends
  \/ loadNodeState
  \/ loadNodeState_SaveFails
  \/ SetMeetings_Clear
  \/ SetMeetings_Fails
  \/ SetMeetings_SaveMeetings
  \/ SetMeetings
  \/ SetMeetings_SaveFails
  \/ SetMeetings_Commit
  \/ SetMeetings_CommitFails
  \/ AdminStop

\* ------------------------------------------------------------------- Next
EnqNext ==
  \/ Tick
  \/ Queue_Insert
  \/ Queue_InsertFails
  \/ Queue_Notify
  \/ Queue_NotifyFails
  \/ deleteExpired

ConsumerNext(c) ==
  \/ Receive_Call(c)
  \/ Receive_SubscribeFails(c)
  \/ Receive_Notified(c)
  \/ Receive_Timeout(c)
  \/ Receive_WaitFails(c)
  \/ process_BeginFails(c)
  \/ process_Empty(c)
  \/ process_Claim(c)
  \/ process_Handler(c)
  \/ process_Commit(c)
  \/ process_WriteFails(c)
  \/ Controller_Sleep(c)

QNext == EnqNext \/ \E c \in Consumers : ConsumerNext(c)

\* Queue and the consumers while the clock stands still: no command's
\* deadline passes and none gets old enough for deleteExpired.
RaceNext ==
  \/ Queue_Insert
  \/ Queue_InsertFails
  \/ Queue_Notify
  \/ Queue_NotifyFails
  \/ \E c \in Consumers : ConsumerNext(c)

SpecEnqueue == EnqInit /\ [][EnqNext]_vars
SpecQueue   == Init /\ [][QNext]_vars
SpecSingle  == SingleInit /\ [][QNext]_vars
SpecRace    == Init /\ [][RaceNext]_vars
SpecBackend == BackInit /\ [][BNext]_vars

\* A backend is registered and its meetings are synced, with every list
\* the node can report, while time passes.
SyncInit == BInitWith(SUBSET UpstreamIds) /\ QInitWith(JoinInputs, {}, FALSE)
SyncNext ==
  \/ Tick
  \/ Backend_Register
  \/ SetMeetings_Clear
  \/ SetMeetings_Fails
  \/ SetMeetings_SaveMeetings
  \/ SetMeetings
  \/ SetMeetings_SaveFails
  \/ SetMeetings_Commit
  \/ SetMeetings_CommitFails
SpecSync == SyncInit /\ [][SyncNext]_vars

\* --------------------------------------------------------- event handlers
otherE == <<now, commands, enqVars, conVars, histVars, backend, upstreams,
            meetings, sync, upd, fn>>

EventId(h) == hd[h].ev.id

\* The handler returns r to Dispatch. An event the stream delivers twice
\* is kept for its second delivery.
EventHandled(h, r) ==
  IF hd[h].twice /\ ~hd[h].again
    THEN [hd[h] EXCEPT !.pc = "redeliver", !.ret = r, !.mstate = NoState]
    ELSE [NoHandler EXCEPT !.ret = r, !.again = hd[h].again]

\* Dispatch: store.Begin, then the switch on the type of the event.
Dispatch_Begin(h, deliveries) ==
  /\ hd[h].pc = "idle"
  /\ \E e \in Events, tw \in deliveries :
       hd' = [hd EXCEPT ![h] = [NoHandler EXCEPT !.pc = "read", !.ev = e,
                !.twice = tw,
                !.early = e.type = "MeetingCreated" /\ ~mstore[e.id].exists]]
  /\ UNCHANGED <<faults, mstore, rowlock, gw, otherE>>

\* Dispatch: store.Begin fails.
Dispatch_BeginFails(h) ==
  /\ hd[h].pc = "idle"
  /\ Fault
  /\ hd' = [hd EXCEPT ![h] = [NoHandler EXCEPT !.ret = "err"]]
  /\ UNCHANGED <<mstore, rowlock, gw, otherE>>

\* The event stream delivers the event the handler has just handled once
\* more, and Dispatch begins again.
Dispatch_Redelivered(h) ==
  /\ hd[h].pc = "redeliver"
  /\ hd[h].ret \in {"nil", "panic"}
  /\ hd' = [hd EXCEPT ![h] = [NoHandler EXCEPT !.pc = "read",
               !.ev = hd[h].ev, !.again = TRUE,
               !.first = mstore[EventId(h)]]]
  /\ UNCHANGED <<faults, mstore, rowlock, gw, otherE>>

\* The event is not delivered again: its handling failed.
Dispatch_NotRedelivered(h) ==
  /\ hd[h].pc = "redeliver"
  /\ hd[h].ret = "err"
  /\ hd' = [hd EXCEPT ![h] = [NoHandler EXCEPT !.ret = "err"]]
  /\ UNCHANGED <<faults, mstore, rowlock, gw, otherE>>

\* awaitInternalMeeting finds the row within its 5 s and holds its lock.
awaitInternalMeeting_Found(h) ==
  /\ hd[h].pc = "read"
  /\ hd[h].ev.type \in {"MeetingCreated", "MeetingEnded"}
  /\ mstore[EventId(h)].exists
  /\ rowlock[EventId(h)] = "none"
  /\ hd' = [hd EXCEPT ![h] = [@ EXCEPT !.pc = "save",
               !.mstate = mstore[EventId(h)]]]
  /\ rowlock' = [rowlock EXCEPT ![EventId(h)] = h]
  /\ UNCHANGED <<faults, mstore, gw, otherE>>

\* onMeetingCreated: the meeting stayed unknown; warn, return nil and let
\* Dispatch commit.
onMeetingCreated_Unknown(h) ==
  /\ hd[h].pc = "read"
  /\ hd[h].ev.type = "MeetingCreated"
  /\ ~mstore[EventId(h)].exists
  /\ hd' = [hd EXCEPT ![h] = EventHandled(h, "nil")]
  /\ UNCHANGED <<faults, mstore, rowlock, gw, otherE>>

\* onMeetingEnded: the meeting stayed unknown; warn, and go on to
\* mstate.Meeting.Running = false with mstate nil.
onMeetingEnded_Unknown(h) ==
  /\ hd[h].pc = "read"
  /\ hd[h].ev.type = "MeetingEnded"
  /\ ~mstore[EventId(h)].exists
  /\ hd' = [hd EXCEPT ![h] = EventHandled(h, "panic")]
  /\ UNCHANGED <<faults, mstore, rowlock, gw, otherE>>

\* onMeetingDestroyed: delete the row, return nil; Dispatch commits.
onMeetingDestroyed(h) ==
  /\ hd[h].pc = "read"
  /\ hd[h].ev.type = "MeetingDestroyed"
  /\ rowlock[EventId(h)] = "none"
  /\ mstore' = [mstore EXCEPT ![EventId(h)] = NoState]
  /\ hd' = [hd EXCEPT ![h] = EventHandled(h, "nil")]
  /\ UNCHANGED <<faults, rowlock, gw, otherE>>

\* onMeetingDestroyed: the delete fails and nil is returned; Dispatch goes
\* on to Commit, which succeeds or reports the failed transaction.
onMeetingDestroyed_DeleteFails(h) ==
  /\ hd[h].pc = "read"
  /\ hd[h].ev.type = "MeetingDestroyed"
  /\ Fault
  /\ \E r \in {"nil", "err"} : hd' = [hd EXCEPT ![h] = EventHandled(h, r)]
  /\ UNCHANGED <<mstore, rowlock, gw, otherE>>

\* onUserJoinedMeeting, onUserLeftMeeting: GetMeetingState finds the row.
GetMeetingState_Found(h) ==
  /\ hd[h].pc = "read"
  /\ hd[h].ev.type \in UserEvents
  /\ mstore[EventId(h)].exists
  /\ rowlock[EventId(h)] = "none"
  /\ hd[h].ev.type = "UserJoinedMeeting" =>
       Len(mstore[EventId(h)].attendees) < MaxAttendees
  /\ hd' = [hd EXCEPT ![h] = [@ EXCEPT !.pc = "save",
               !.mstate = mstore[EventId(h)]]]
  /\ rowlock' = [rowlock EXCEPT ![EventId(h)] = h]
  /\ UNCHANGED <<faults, mstore, gw, otherE>>

\* onUserJoinedMeeting, onUserLeftMeeting: no such meeting; return nil.
GetMeetingState_None(h) ==
  /\ hd[h].pc = "read"
  /\ hd[h].ev.type \in UserEvents
  /\ ~mstore[EventId(h)].exists
  /\ hd' = [hd EXCEPT ![h] = EventHandled(h, "nil")]
  /\ UNCHANGED <<faults, mstore, rowlock, gw, otherE>>

\* The handler applies its change to the state it read and saves it;
\* Dispatch commits.
Dispatch_Commit(h) ==
  /\ hd[h].pc = "save"
  /\ LET new == HandlerDelta(hd[h].ev, hd[h].mstate) IN
       /\ mstore' = [mstore EXCEPT ![EventId(h)] = new]
       /\ hd' = [hd EXCEPT ![h] = [EventHandled(h, "nil")
                                     EXCEPT !.early = hd[h].early]]
  /\ rowlock' = [rowlock EXCEPT ![EventId(h)] = "none"]
  /\ UNCHANGED <<faults, gw, otherE>>

\* Save fails: Dispatch returns the error, the transaction is rolled back.
Dispatch_SaveFails(h) ==
  /\ hd[h].pc = "save"
  /\ Fault
  /\ hd' = [hd EXCEPT ![h] = EventHandled(h, "err")]
  /\ rowlock' = [rowlock EXCEPT ![EventId(h)] = "none"]
  /\ UNCHANGED <<mstore, gw, otherE>>

\* ---------------------------------------------------------------- gateway
GatewayAt(op, x, found, pcnext, snap, r) ==
  [pc |-> pcnext, op |-> op, id |-> x, found |-> found, snapshot |-> snap,
   ret |-> r]

\* Create: the meeting is known and IsMeetingRunning answers SUCCESS; the
\* stored meeting is returned.
Create_Running(x) ==
  /\ gw.pc = "idle"
  /\ mstore[x].exists
  /\ gw' = GatewayAt("create", x, FALSE, "idle", NoState, "synthetic")
  /\ UNCHANGED <<faults, mstore, rowlock, hd, otherE>>

\* Create: the meeting is known and IsMeetingRunning answers otherwise
\* (on ERROR it deletes the row); the request is forwarded to the node.
Create_NotRunning(x) ==
  /\ gw.pc = "idle"
  /\ mstore[x].exists
  /\ \E code \in {"FAILED", "ERROR"} :
       IF code = "ERROR"
         THEN /\ rowlock[x] = "none"
              /\ mstore' = [mstore EXCEPT ![x] = NoState]
         ELSE UNCHANGED mstore
  /\ gw' = GatewayAt("create", x, TRUE, "store", NoState, "none")
  /\ UNCHANGED <<faults, rowlock, hd, otherE>>

\* Create: the meeting is not known; the request is forwarded to the node.
Create_Unknown(x) ==
  /\ gw.pc = "idle"
  /\ ~mstore[x].exists
  /\ gw' = GatewayAt("create", x, FALSE, "store", NoState, "none")
  /\ UNCHANGED <<faults, mstore, rowlock, hd, otherE>>

\* Create: the node fails the request.
Create_ForwardFails ==
  /\ gw.pc = "store"
  /\ gw' = [gw EXCEPT !.pc = "idle", !.found = FALSE, !.ret = "err"]
  /\ UNCHANGED <<faults, mstore, rowlock, hd, otherE>>

\* Create, meetingState == nil: CreateMeetingState inserts the meeting of
\* the node's response.
Create_Insert ==
  /\ gw.pc = "store"
  /\ ~gw.found
  /\ ~mstore[gw.id].exists
  /\ \E r \in BOOLEAN :
       mstore' = [mstore EXCEPT ![gw.id] = StateOf(r, <<>>)]
  /\ gw' = [gw EXCEPT !.pc = "idle", !.ret = "created"]
  /\ UNCHANGED <<faults, rowlock, hd, otherE>>

\* Create, meetingState == nil: CreateMeetingState fails.
Create_InsertFails ==
  /\ gw.pc = "store"
  /\ ~gw.found
  /\ Fault
  /\ gw' = [gw EXCEPT !.pc = "idle", !.found = FALSE, !.ret = "err"]
  /\ UNCHANGED <<mstore, rowlock, hd, otherE>>

\* Create, meetingState != nil: Save calls MeetingState.update, which
\* returns its error.
Create_Update ==
  /\ gw.pc = "store"
  /\ gw.found
  /\ gw' = [gw EXCEPT !.pc = "idle", !.found = FALSE, !.ret = "implement me"]
  /\ UNCHANGED <<faults, mstore, rowlock, hd, otherE>>

\* GetMeetingInfo: the node answers SUCCESS with a snapshot of the meeting;
\* the state is read from the pool, given the snapshot and saved, and
\* the error of MeetingState.update is logged.
GetMeetingInfo(x) ==
  /\ gw.pc = "idle"
  /\ mstore[x].exists
  /\ \E snap \in Snapshots :
       gw' = GatewayAt("info", x, FALSE, "idle", snap, "res")
  /\ UNCHANGED <<faults, mstore, rowlock, hd, otherE>>

\* GetMeetingInfo: GetMeetingState returns nil, nil for a meeting the store
\* does not know, and mstate.Meeting is assigned.
GetMeetingInfo_Unknown(x) ==
  /\ gw.pc = "idle"
  /\ ~mstore[x].exists
  /\ \E snap \in Snapshots :
       gw' = GatewayAt("info", x, FALSE, "idle", snap, "panic")
  /\ UNCHANGED <<faults, mstore, rowlock, hd, otherE>>

HandlerSteps(h) ==
  \/ Dispatch_BeginFails(h)
  \/ awaitInternalMeeting_Found(h)
  \/ onMeetingCreated_Unknown(h)
  \/ onMeetingEnded_Unknown(h)
  \/ onMeetingDestroyed(h)
  \/ onMeetingDestroyed_DeleteFails(h)
  \/ GetMeetingState_Found(h)
  \/ GetMeetingState_None(h)
  \/ Dispatch_Commit(h)
  \/ Dispatch_SaveFails(h)

CreateNext ==
  \/ \E x \in InternalIds : Create_Running(x)
  \/ \E x \in InternalIds : Create_NotRunning(x)
  \/ \E x \in InternalIds : Create_Unknown(x)
  \/ Create_ForwardFails
  \/ Create_Insert
  \/ Create_InsertFails
  \/ Create_Update

InfoNext ==
  \/ \E x \in InternalIds : GetMeetingInfo(x)
  \/ \E x \in InternalIds : GetMeetingInfo_Unknown(x)

EventInitWith(stores) ==
  /\ MInitWith({{}})
  /\ BackendStart
  /\ EInitWith(stores, {NoUpd})
  /\ QInitWith(JoinInputs, {}, FALSE)

\* A handler that is given each event once.
HandlerNext(h) == Dispatch_Begin(h, {FALSE}) \/ HandlerSteps(h)

\* One agent dispatches the events of its node, some of them twice.
EventNext ==
  \/ Dispatch_Begin("h1", BOOLEAN)
  \/ HandlerSteps("h1")
  \/ Dispatch_Redelivered("h1")
  \/ Dispatch_NotRedelivered("h1")
SpecEvents == EventInitWith([InternalIds -> InitialRows]) /\ [][EventNext]_vars

\* The gateway serves create while the agent dispatches events; no
\* meeting is known before its create.
CreateEventNext == HandlerNext("h1") \/ CreateNext
SpecCreate == EventInitWith({NoRows}) /\ [][CreateEventNext]_vars

\* Two handlers dispatch events while the gateway serves getMeetingInfo.
RaceEventNext == InfoNext \/ \E h \in Handlers : HandlerNext(h)
SpecEventsRace ==
  EventInitWith({[NoRows EXCEPT !["x1"] = r] : r \in InitialRows \ {NoState}})
    /\ [][RaceEventNext]_vars

\* ---------------------------------------------------------- Meeting.Update
Meeting_Update ==
  /\ ~upd.called
  /\ LET res == MeetingUpdate(upd.m, upd.update) IN
       upd' = [upd EXCEPT !.called = TRUE, !.before = upd.m,
                          !.m = res.m, !.err = res.err]
  /\ UNCHANGED <<qvars, backend, upstreams, meetings, sync, mstore,
                 rowlock, hd, gw, fn>>

UpdateInit ==
  /\ MInitWith({{}})
  /\ BackendStart
  /\ EInitWith({NoRows},
               {[NoUpd EXCEPT !.m = m, !.update = u] :
                  m \in MeetingValues, u \in MeetingValues})
  /\ QInitWith(JoinInputs, {}, FALSE)

SpecUpdate == UpdateInit /\ [][Meeting_Update]_vars

\* ---------------------------------------------------------------- settings
otherFn == <<qvars, backend, upstreams, meetings, sync, mstore, rowlock, hd,
             gw, upd>>

Called(name) == fn.name = name /\ ~fn.done

Tags_Eq ==
  /\ Called("Tags.Eq")
  /\ fn' = Returned(TagsEq(fn.args.t, fn.args.other))
  /\ UNCHANGED otherFn

BackendSettings_Merge ==
  /\ Called("BackendSettings.Merge")
  /\ fn' = Returned(BackendSettingsMerge(fn.args.s, fn.args.update))
  /\ UNCHANGED otherFn

FrontendSettings_Merge ==
  /\ Called("FrontendSettings.Merge")
  /\ fn' = Returned(FrontendSettingsMerge(fn.args.s, fn.args.update))
  /\ UNCHANGED otherFn

CallStart ==
  /\ MInitWith({{}})
  /\ BackendStart
  /\ EStart({NoRows}, {NoUpd})
  /\ QInitWith(JoinInputs, {}, FALSE)

SettingsInit ==
  /\ CallStart
  /\ \/ \E t \in TagLists, o \in TagLists :
          fn = CallOf("Tags.Eq", [t |-> t, other |-> o])
     \/ \E st \in BackendSettingsValues, u \in BackendSettingsValues :
          fn = CallOf("BackendSettings.Merge", [s |-> st, update |-> u])
     \/ \E st \in FrontendSettingsValues, u \in FrontendSettingsValues :
          fn = CallOf("FrontendSettings.Merge", [s |-> st, update |-> u])

SettingsNext == Tags_Eq \/ BackendSettings_Merge \/ FrontendSettings_Merge
SpecSettings == SettingsInit /\ [][SettingsNext]_vars

\* ---------------------------------------------------------------- signing
Request_Sign ==
  /\ Called("Sign")
  /\ fn' = Returned([query |-> ParamsString(fn.args.params),
                      checksum |-> Sign(fn.args.resource, fn.args.params,
                                        fn.args.secret)])
  /\ UNCHANGED otherFn

Request_Verify ==
  /\ Called("Verify")
  /\ fn' = Returned([ok |-> Verify(fn.args.resource, fn.args.params,
                                   fn.args.secret, fn.args.checksum)])
  /\ UNCHANGED otherFn

SigningInit ==
  /\ CallStart
  /\ \E r \in Resources, p \in ParamMaps, sec \in SigningSecrets :
       \/ fn = CallOf("Sign", [resource |-> r, params |-> p, secret |-> sec])
       \/ \E sum \in Checksums(r, p, sec) :
            fn = CallOf("Verify", [resource |-> r, params |-> p,
                                   secret |-> sec, checksum |-> sum])

SigningNext == Request_Sign \/ Request_Verify
SpecSigning == SigningInit /\ [][SigningNext]_vars

\* ----------------------------------------------------------------- router
Router_Lookup ==
  /\ Called("Lookup")
  /\ fn' = Returned(Lookup(fn.args.backends, fn.args.req))
  /\ UNCHANGED otherFn

RouterInit ==
  /\ CallStart
  /\ \E b1 \in CandidatesOf("b1"), b2 \in CandidatesOf("b2"),
        req \in RouterRequests :
       \E list \in {<<>>, <<b1>>, <<b2>>, <<b1, b2>>, <<b2, b1>>} :
         fn = CallOf("Lookup", [backends |-> list, req |-> req])

RouterNext == Router_Lookup
SpecRouter == RouterInit /\ [][RouterNext]_vars

\* ---------------------------------------------------------------- gateway
\* What no stage of the gateway changes.
otherG == <<now, inputs, active, track, enq, sub, pc, held, out, invoked,
            lastDone, swept, backend, upstreams, meetings, sync, rowlock, hd,
            gw, upd>>
storeG == <<commands, nextSeq, notifies, notif, missed, mstore>>

Stage(name, resource) ==
  fn.name = "Dispatch" /\ ~fn.done /\ fn.res.stage = name
    /\ (resource # "" => fn.args.resource = resource)
Respond(res) == [fn EXCEPT !.done = TRUE, !.res = [res EXCEPT !.stage = "done"]]

\* The next request of a frontend arrives.
Gateway_Request ==
  /\ fn.name = "Dispatch" /\ fn.done
  /\ fn.args.n < MaxRequests
  /\ \E resource \in GatewayResources, f \in {"f1", NoFrontend},
        id \in InternalIds :
       \E sum \in RequestChecksums(resource, id) :
         fn' = DispatchOf(fn.args.n + 1,
                          IF fn.args.resource = "end" /\ fn.res.ret = "nil"
                               /\ fn.res.returncode = "SUCCESS"
                            THEN fn.args.id ELSE fn.args.ended,
                          resource, f, id, sum)
  /\ NoFault
  /\ UNCHANGED <<storeG, otherG>>

Gateway_Authenticate ==
  /\ Stage("auth", "")
  /\ Authenticated(fn.args)
  /\ fn' = [fn EXCEPT !.res.stage = "handler"]
  /\ NoFault
  /\ UNCHANGED <<storeG, otherG>>

Gateway_AuthFailed ==
  /\ Stage("auth", "")
  /\ ~Authenticated(fn.args)
  /\ fn' = Respond([fn.res EXCEPT !.ret = "AuthFailed", !.status = 401])
  /\ NoFault
  /\ UNCHANGED <<storeG, otherG>>

\* Join: the redirect to the backend is built; the backend is not asked.
Join_Redirect ==
  /\ Stage("handler", "join")
  /\ nextSeq <= MaxCommands
  /\ fn' = [fn EXCEPT !.res.stage = "queue",
                       !.res.status = 302,
                       !.res.body = RedirectFallback,
                       !.res.location =
                         RequestURL(BackendHost, <<"join">>,
                                    MeetingParams(fn.args.id), BackendSecret)]
  /\ NoFault
  /\ UNCHANGED <<storeG, otherG>>

\* Join: Queue inserts the command.
Join_QueueInsert ==
  /\ Stage("queue", "join")
  /\ commands' = [commands EXCEPT
                    ![nextSeq] = QueueRow(UpdateMeetingState(fn.args.id), now)]
  /\ nextSeq' = nextSeq + 1
  /\ fn' = [fn EXCEPT !.res.stage = "notify", !.res.queued = @ + 1,
                       !.res.seq = nextSeq]
  /\ NoFault
  /\ UNCHANGED <<notifies, notif, missed, mstore, otherG>>

\* Join: the INSERT of Queue fails; Join drops the error and returns.
Join_QueueInsertFails ==
  /\ Stage("queue", "join")
  /\ Fault
  /\ fn' = Respond([fn.res EXCEPT !.ret = "nil"])
  /\ UNCHANGED <<storeG, otherG>>

\* Join: Queue notifies, and Join returns.
Join_QueueNotify ==
  /\ Stage("notify", "join")
  /\ notifies' = notifies + 1
  /\ notif' = [c \in Consumers |-> IF sub[c] THEN notif[c] + 1 ELSE notif[c]]
  /\ missed' = [c \in Consumers |->
                  missed[c] \/ (track /\ c \in active /\ ~sub[c])]
  /\ fn' = Respond([fn.res EXCEPT !.ret = "nil"])
  /\ NoFault
  /\ UNCHANGED <<commands, nextSeq, mstore, otherG>>

\* Join: the NOTIFY of Queue fails; Join drops the error and returns.
Join_QueueNotifyFails ==
  /\ Stage("notify", "join")
  /\ Fault
  /\ fn' = Respond([fn.res EXCEPT !.ret = "nil"])
  /\ UNCHANGED <<storeG, otherG>>

\* End: the request is sent to the backend, whose answer is returned.
End_Forward ==
  /\ Stage("handler", "end")
  /\ \E code \in {"SUCCESS", "FAILED"} :
       fn' = Respond([fn.res EXCEPT !.ret = "nil", !.status = 200,
                                    !.returncode = code, !.contacted = TRUE])
  /\ NoFault
  /\ UNCHANGED <<storeG, otherG>>

\* End: the request to the backend fails.
End_ForwardFails ==
  /\ Stage("handler", "end")
  /\ Fault
  /\ fn' = Respond([fn.res EXCEPT !.ret = "err", !.contacted = TRUE])
  /\ UNCHANGED <<storeG, otherG>>

\* The frontend a meeting of the store is bound to.
FrontendOf(x) == IF x = "x1" THEN "f1" ELSE "f2"

\* The query of GetMeetings: FROM meetings, joined with frontends, and the
\* table and the column its condition names.
GetMeetingsQuery ==
  [from |-> {"meetings", "frontends"},
   where |-> [table |-> "frontend", column |-> "key"]]

\* The database runs a query if the table its condition names is one of
\* the tables the query selects from.
QueryRuns(q) == q.where.table \in q.from

\* GetMeetings: the meetings of the store that the query selects are
\* returned, or the error of the query.
GetMeetings ==
  /\ Stage("handler", "getMeetings")
  /\ IF QueryRuns(GetMeetingsQuery)
       THEN fn' = Respond([fn.res EXCEPT
                      !.ret = "nil", !.status = 200, !.returncode = "SUCCESS",
                      !.meetings = {x \in InternalIds :
                                      /\ mstore[x].exists
                                      /\ FrontendOf(x) = fn.args.frontend}])
       ELSE fn' = Respond([fn.res EXCEPT !.ret = "err"])
  /\ NoFault
  /\ UNCHANGED <<storeG, otherG>>

\* GetMeetings: the query fails.
GetMeetings_Fails ==
  /\ Stage("handler", "getMeetings")
  /\ Fault
  /\ fn' = Respond([fn.res EXCEPT !.ret = "err"])
  /\ UNCHANGED <<storeG, otherG>>

GatewayInit ==
  /\ MInitWith({{}})
  /\ BackendStart
  /\ EStart([InternalIds -> {NoState, StateOf(TRUE, <<>>)}], {NoUpd})
  /\ QInitWith(JoinInputs, {}, FALSE)
  /\ \E resource \in GatewayResources, f \in {"f1", NoFrontend},
        id \in InternalIds :
       \E sum \in RequestChecksums(resource, id) :
         fn = DispatchOf(1, "", resource, f, id, sum)

GatewayNext ==
  \/ Gateway_Request \/ Gateway_Authenticate \/ Gateway_AuthFailed
  \/ Join_Redirect \/ Join_QueueInsert \/ Join_QueueInsertFails
  \/ Join_QueueNotify \/ Join_QueueNotifyFails
  \/ End_Forward \/ End_ForwardFails
  \/ GetMeetings \/ GetMeetings_Fails
SpecGateway == GatewayInit /\ [][GatewayNext]_vars

\* ----------------------------------------------------------------- config
\* The backends table as the node agent sees it: per id no row, or the host
\* and the secret of a backend.
BackendIds == {"b1", "b2"}
ServerURLs == {<<"h", "1">>, <<"h", "1", "0">>, <<"h", "2", "/">>}
ConfigSecrets == {"secret1", "secret2"}
NoBackendEntry == [exists |-> FALSE, host |-> <<>>, secret |-> ""]

\* configRegisterBackendState: the api endpoint appended to the server URL.
ApiURL(serverURL) ==
  (IF serverURL[Len(serverURL)] = "/" THEN serverURL
                                      ELSE serverURL \o <<"/">>)
    \o <<"bigbluebutton/api/">>

BackendEntries ==
  {NoBackendEntry} \cup
  [exists : {TRUE}, host : {ApiURL(u) : u \in ServerURLs},
   secret : ConfigSecrets]
BackendTables == [BackendIds -> BackendEntries]

\* host ILIKE serverURL + "%": the host begins with the server URL.
HostMatches(host, serverURL) ==
  /\ Len(serverURL) <= Len(host)
  /\ SubSeq(host, 1, Len(serverURL)) = serverURL

\* GetBackendState with that filter: the rows it can return.
Matching(rows, serverURL) ==
  {b \in BackendIds : rows[b].exists /\ HostMatches(rows[b].host, serverURL)}

ConfigCall(name, rows, serverURL, secret, registered) ==
  [name |-> name, done |-> FALSE,
   args |-> [rows |-> rows, serverURL |-> serverURL, secret |-> secret,
             registered |-> registered],
   res |-> [state |-> "none", rows |-> rows, err |-> FALSE]]

\* configRegisterBackendState: a row with the api URL and the secret of the
\* config is inserted and committed; the node resolves its backend from
\* the same config later.
configRegisterBackendState ==
  /\ Called("configRegisterBackendState")
  /\ \E b \in BackendIds :
       /\ ~fn.args.rows[b].exists
       /\ fn' = ConfigCall("configToBackendState",
                           [fn.args.rows EXCEPT
                              ![b] = [exists |-> TRUE,
                                      host |-> ApiURL(fn.args.serverURL),
                                      secret |-> fn.args.secret]],
                           fn.args.serverURL, fn.args.secret, b)
  /\ NoFault
  /\ UNCHANGED otherFn

\* configRegisterBackendState of another node, which found no row for its
\* own server URL, before this node resolves its backend.
configRegisterBackendState_OtherNode ==
  /\ Called("configToBackendState")
  /\ \E b \in BackendIds, u \in ServerURLs, sec \in ConfigSecrets :
       /\ ~fn.args.rows[b].exists
       /\ Matching(fn.args.rows, u) = {}
       /\ fn' = ConfigCall("configToBackendState",
                           [fn.args.rows EXCEPT
                              ![b] = [exists |-> TRUE, host |-> ApiURL(u),
                                      secret |-> sec]],
                           fn.args.serverURL, fn.args.secret,
                           fn.args.registered)
  /\ NoFault
  /\ UNCHANGED otherFn

\* configRegisterBackendState: Begin, Save or Commit fails.
configRegisterBackendState_Fails ==
  /\ Called("configRegisterBackendState")
  /\ Fault
  /\ fn' = Returned([fn.res EXCEPT !.err = TRUE])
  /\ UNCHANGED <<now, commands, enqVars, conVars, histVars, backend, upstreams,
                 meetings, sync, mstore, rowlock, hd, gw, upd>>

\* configToBackendState: no row matches, nil is returned.
configToBackendState_None ==
  /\ Called("configToBackendState")
  /\ Matching(fn.args.rows, fn.args.serverURL) = {}
  /\ fn' = Returned(fn.res)
  /\ NoFault
  /\ UNCHANGED otherFn

\* configToBackendState: a row matches; its secret is set to the one of the
\* config when it differs, and the state is returned.
configToBackendState ==
  /\ Called("configToBackendState")
  /\ \E b \in Matching(fn.args.rows, fn.args.serverURL) :
       fn' = Returned([state |-> b,
                       rows |-> IF fn.args.rows[b].secret # fn.args.secret
                                  THEN [fn.args.rows EXCEPT
                                          ![b].secret = fn.args.secret]
                                  ELSE fn.args.rows,
                       err |-> FALSE])
  /\ NoFault
  /\ UNCHANGED otherFn

\* configToBackendState: Begin, the query, Save or Commit fails; the
\* deferred Rollback leaves the table as it was.
configToBackendState_Fails ==
  /\ Called("configToBackendState")
  /\ Fault
  /\ fn' = Returned([fn.res EXCEPT !.err = TRUE])
  /\ UNCHANGED <<now, commands, enqVars, conVars, histVars, backend, upstreams,
                 meetings, sync, mstore, rowlock, hd, gw, upd>>

ConfigInit ==
  /\ CallStart
  /\ \E rows \in BackendTables, u \in ServerURLs, sec \in ConfigSecrets :
       \/ fn = ConfigCall("configToBackendState", rows, u, sec, "none")
       \/ /\ Matching(rows, u) = {}
          /\ \E b \in BackendIds : ~rows[b].exists
          /\ fn = ConfigCall("configRegisterBackendState", rows, u, sec,
                             "none")
ConfigNext ==
  \/ configRegisterBackendState
  \/ configRegisterBackendState_Fails
  \/ configRegisterBackendState_OtherNode
  \/ configToBackendState_None
  \/ configToBackendState
  \/ configToBackendState_Fails
SpecConfig == ConfigInit /\ [][ConfigNext]_vars

\* -------------------------------------------------------------- responses
\* The frames a goroutine's stack has room for, in the model.
MaxDepth == 3
\* The implementations of Response.
XMLTyped ==
  {"CreateResponse", "JoinResponse", "IsMeetingRunningResponse", "EndResponse",
   "GetMeetingInfoResponse", "GetMeetingsResponse", "GetRecordingsResponse",
   "PublishRecordingsResponse", "DeleteRecordingsResponse",
   "UpdateRecordingsResponse", "SetConfigXMLResponse"}
JSONTyped == {"GetRecordingTextTracksResponse", "PutRecordingTextTrackResponse"}
ResponseTypes ==
  {"RawResponse", "XMLResponse", "GetDefaultConfigXMLResponse"}
    \cup XMLTyped \cup JSONTyped
\* A nil http.Header, the headers a caller sets and the default ones.
NilHeader == "nil"
ResponseHeaders == {NilHeader, "X-A: 1"}
ResponseStatuses == {0, 200, 404}
StatusOK == 200

\* The receiver the method of a type is called on in the body of that
\* method: the embedded XMLResponse, the response itself, or none when the
\* method reads or writes the field.
Callee(type) ==
  IF type \in XMLTyped THEN "XMLResponse"
  ELSE IF type = "GetDefaultConfigXMLResponse"
    THEN "GetDefaultConfigXMLResponse"
  ELSE "none"

\* Header(): a nil header of a raw or an XML response is made and kept.
DefaultHeader(type, header) ==
  IF header # NilHeader THEN header
  ELSE IF type = "RawResponse" THEN "Content-Type: text/html"
  ELSE IF type = "XMLResponse" THEN "Content-Type: application/xml"
  ELSE header
\* Status(): the zero status of a raw response reads as 200.
StatusOf(type, status) ==
  IF type = "RawResponse" /\ status = 0 THEN StatusOK ELSE status

\* A response of a type on which SetStatus(value) and then Status(), or
\* SetHeader(value) and then Header(), is called: the fields of the
\* response, the method that runs, the receivers of the calls on the stack.
ResponseCall(type, field, value) ==
  [name |-> "Response", done |-> FALSE,
   args |-> [type |-> type, field |-> field, value |-> value],
   res |-> [status |-> 0, header |-> NilHeader, pc |-> "set",
            stack |-> <<type>>, got |-> <<>>, ret |-> "none"]]

\* The method on top of the stack calls the same method of its callee.
Response_Delegate ==
  /\ Called("Response")
  /\ Callee(fn.res.stack[Len(fn.res.stack)]) # "none"
  /\ Len(fn.res.stack) < MaxDepth
  /\ fn' = [fn EXCEPT !.res.stack =
                         Append(@, Callee(fn.res.stack[Len(fn.res.stack)]))]
  /\ NoFault
  /\ UNCHANGED otherFn

\* The stack has no room for the next call: the program ends with a fatal
\* stack overflow.
Response_StackOverflow ==
  /\ Called("Response")
  /\ Callee(fn.res.stack[Len(fn.res.stack)]) # "none"
  /\ Len(fn.res.stack) = MaxDepth
  /\ fn' = [fn EXCEPT !.done = TRUE, !.res.ret = "fatal"]
  /\ NoFault
  /\ UNCHANGED otherFn

\* SetStatus, SetHeader: the field is assigned and the calls return.
Response_Set ==
  /\ Called("Response")
  /\ fn.res.pc = "set"
  /\ Callee(fn.res.stack[Len(fn.res.stack)]) = "none"
  /\ fn' = [fn EXCEPT
              !.res.status = IF fn.args.field = "status"
                               THEN fn.args.value ELSE @,
              !.res.header = IF fn.args.field = "header"
                               THEN fn.args.value ELSE @,
              !.res.pc = "get",
              !.res.stack = <<fn.args.type>>]
  /\ NoFault
  /\ UNCHANGED otherFn

\* Status, Header: the field is read and the calls return.
Response_Get ==
  /\ Called("Response")
  /\ fn.res.pc = "get"
  /\ Callee(fn.res.stack[Len(fn.res.stack)]) = "none"
  /\ LET impl == fn.res.stack[Len(fn.res.stack)] IN
       fn' = [fn EXCEPT
                !.done = TRUE,
                !.res.header = IF fn.args.field = "header"
                                 THEN DefaultHeader(impl, @) ELSE @,
                !.res.got = IF fn.args.field = "header"
                              THEN <<DefaultHeader(impl, fn.res.header)>>
                              ELSE <<StatusOf(impl, fn.res.status)>>,
                !.res.ret = "returned"]
  /\ NoFault
  /\ UNCHANGED otherFn

ResponseInit ==
  /\ CallStart
  /\ \E type \in ResponseTypes :
       \/ \E st \in ResponseStatuses : fn = ResponseCall(type, "status", st)
       \/ \E h \in ResponseHeaders : fn = ResponseCall(type, "header", h)
ResponseNext ==
  Response_Delegate \/ Response_StackOverflow \/ Response_Set \/ Response_Get
SpecResponse == ResponseInit /\ [][ResponseNext]_vars

\* ------------------------------------------------------ middleware chains
GatewayUseAsPipeline ==
  <<"RewriteUniqueMeetingID", "BindMeetingFrontend", "SetDefaultPresentation",
    "MeetingsRequestHandler", "RecordingsRequestHandler", "AdminRequestHandler">>

\* The middlewares of the gateway, in the order of the calls of gateway.Use.
GatewayUse ==
  <<"AdminRequestHandler", "RecordingsRequestHandler", "MeetingsRequestHandler",
    "SetDefaultPresentation", "BindMeetingFrontend", "RewriteUniqueMeetingID">>

ChainResources == {"meetings", "recordings", "admin"}
\* A resource handler answers the requests of its resources and hands the
\* other ones to the next handler.
Handles(stage, resource) ==
  \/ stage = "MeetingsRequestHandler" /\ resource = "meetings"
  \/ stage = "RecordingsRequestHandler" /\ resource = "recordings"
  \/ stage = "AdminRequestHandler" /\ resource = "admin"

\* Use wraps the chain built so far: of the middlewares not yet run, the
\* one used last is the outermost and runs next.
Outermost(use) == use[Len(use)]
Inner(use) == SubSeq(use, 1, Len(use) - 1)

UseOf(chain) == IF chain = "router" THEN RouterUse ELSE GatewayUse

\* A request to a chain; the router's comes with the candidates.
ChainCall(chain, resource, backends, req) ==
  [name |-> "Chain", done |-> FALSE,
   args |-> [chain |-> chain, resource |-> resource, backends |-> backends,
             req |-> req],
   res |-> [left |-> UseOf(chain), trace |-> <<>>, seen |-> <<>>,
            backends |-> backends, ret |-> "none"]]

\* The outermost middleware that has not run yet runs and calls next.
Chain_Next ==
  /\ Called("Chain")
  /\ fn.res.left # <<>>
  /\ ~Handles(Outermost(fn.res.left), fn.args.resource)
  /\ fn' = [fn EXCEPT !.res.left = Inner(fn.res.left),
                       !.res.trace = Append(@, Outermost(fn.res.left)),
                       !.res.seen = Append(@, fn.res.backends),
                       !.res.backends =
                         IF fn.args.chain = "router"
                           THEN Middleware(Outermost(fn.res.left),
                                           fn.res.backends, fn.args.req)
                           ELSE fn.res.backends]
  /\ NoFault
  /\ UNCHANGED otherFn

\* The outermost middleware that has not run yet runs and returns an
\* error without calling next.
Chain_Fails ==
  /\ Called("Chain")
  /\ fn.res.left # <<>>
  /\ Fault
  /\ fn' = [fn EXCEPT !.done = TRUE,
                       !.res.trace = Append(@, Outermost(fn.res.left)),
                       !.res.seen = Append(@, fn.res.backends),
                       !.res.ret = "err"]
  /\ UNCHANGED <<now, commands, enqVars, conVars, histVars, backend, upstreams,
                 meetings, sync, mstore, rowlock, hd, gw, upd>>

\* The handler of the resource of the request runs and answers.
Chain_Handles ==
  /\ Called("Chain")
  /\ fn.res.left # <<>>
  /\ Handles(Outermost(fn.res.left), fn.args.resource)
  /\ fn' = [fn EXCEPT !.done = TRUE,
                       !.res.trace = Append(@, Outermost(fn.res.left)),
                       !.res.seen = Append(@, fn.res.backends),
                       !.res.ret = "handled"]
  /\ NoFault
  /\ UNCHANGED otherFn

\* The innermost handler: the candidates are returned as they are.
Chain_End ==
  /\ Called("Chain")
  /\ fn.res.left = <<>>
  /\ fn' = [fn EXCEPT !.done = TRUE, !.res.ret = "end"]
  /\ NoFault
  /\ UNCHANGED otherFn

ChainInit ==
  /\ CallStart
  /\ \/ \E resource \in ChainResources :
          fn = ChainCall("gateway", resource, <<>>, <<>>)
     \/ \E b1 \in CandidatesOf("b1"), b2 \in CandidatesOf("b2"),
           req \in RouterRequests :
          \E list \in {<<b1>>, <<b1, b2>>, <<b2, b1>>} :
            fn = ChainCall("router", "meetings", list, req)
ChainNext == Chain_Next \/ Chain_Fails \/ Chain_Handles \/ Chain_End
SpecChain == ChainInit /\ [][ChainNext]_vars

\* -------------------------------------------------------- Backend.Create
\* Requests of the gateway that run Backend.Create at the same time, each
\* on the backend the router gave it, over one meetings table.
MaxCreates == 3
Creators == {"r1", "r2"}
CreateIds == {"m1", "m2"}
\* The answers of a node to isMeetingRunning.
RunningAnswers ==
  [code : {"SUCCESS"}, running : BOOLEAN] \cup
  [code : {"FAILED", "ERROR"}, running : {FALSE}]
NoAnswer == [code |-> "", running |-> FALSE]
NoCreate ==
  [pc |-> "idle", id |-> "", backend |-> "", found |-> FALSE,
   answer |-> NoAnswer, forwarded |-> FALSE, wrote |-> FALSE, ret |-> "none",
   status |-> 0]

\* The rows of the meetings table with an id.
RowsOf(rows, id) == {i \in DOMAIN rows : rows[i].id = id}

\* A meetings row with the id exists already: the insert of a second one
\* violates the unique index of the table.
UniqueViolationNever(rows, id) == FALSE
UniqueViolation(rows, id) == RowsOf(rows, id) # {}

\* DeleteMeetingState: the rows with the id are removed.
RECURSIVE DeleteMeetingState(_, _)
DeleteMeetingState(rows, id) ==
  IF rows = <<>> THEN <<>>
  ELSE IF rows[1].id = id THEN DeleteMeetingState(Tail(rows), id)
  ELSE <<rows[1]>> \o DeleteMeetingState(Tail(rows), id)

CreateCalls(rows, calls, hosted, reqs) ==
  [name |-> "Create", done |-> FALSE,
   args |-> [rows |-> rows, calls |-> calls, hosted |-> hosted],
   res |-> reqs]
CreateStep(r, rows, hosted, req) ==
  CreateCalls(rows, fn.args.calls, hosted, [fn.res EXCEPT ![r] = req])
CreateReturn(r, ret) ==
  [fn EXCEPT !.res[r].pc = "done", !.res[r].ret = ret]

\* Create, called first or again after it has returned:
\* meetingStateFromRequest reads the meeting from the pool.
Create_meetingStateFromRequest(r) ==
  /\ fn.name = "Create"
  /\ fn.res[r].pc \in {"idle", "done"}
  /\ fn.args.calls < MaxCreates
  /\ \E id \in CreateIds, b \in BackendIds :
       fn' = CreateCalls(fn.args.rows, fn.args.calls + 1, fn.args.hosted,
               [fn.res EXCEPT
                  ![r] = [NoCreate EXCEPT
                            !.id = id, !.backend = b,
                            !.found = RowsOf(fn.args.rows, id) # {},
                            !.pc = IF RowsOf(fn.args.rows, id) # {}
                                     THEN "running" ELSE "forward"]])
  /\ NoFault
  /\ UNCHANGED otherFn

\* Create, meetingState != nil: IsMeetingRunning asks the node, deletes
\* the meeting on ERROR, and Create returns the stored meeting when the
\* Returncode is SUCCESS.
Create_IsMeetingRunning(r) ==
  /\ fn.name = "Create"
  /\ fn.res[r].pc = "running"
  /\ \E a \in RunningAnswers :
       fn' = CreateStep(r,
               IF a.code = "ERROR"
                 THEN DeleteMeetingState(fn.args.rows, fn.res[r].id)
                 ELSE fn.args.rows,
               fn.args.hosted,
               [fn.res[r] EXCEPT
                  !.answer = a,
                  !.wrote = (a.code = "ERROR"
                               /\ RowsOf(fn.args.rows, fn.res[r].id) # {}),
                  !.pc = IF a.code = "SUCCESS" THEN "done" ELSE "forward",
                  !.ret = IF a.code = "SUCCESS" THEN "synthetic" ELSE "none",
                  !.status = IF a.code = "SUCCESS" THEN 200 ELSE 0])
  /\ NoFault
  /\ UNCHANGED otherFn

\* Create, meetingState != nil: the request of IsMeetingRunning fails.
Create_IsMeetingRunningFails(r) ==
  /\ fn.name = "Create"
  /\ fn.res[r].pc = "running"
  /\ Fault
  /\ fn' = CreateReturn(r, "err")
  /\ UNCHANGED <<now, commands, enqVars, conVars, histVars, backend, upstreams,
                 meetings, sync, mstore, rowlock, hd, gw, upd>>

\* Create: the request is sent to the node of the backend, which creates
\* the meeting.
Create_Do(r) ==
  /\ fn.name = "Create"
  /\ fn.res[r].pc = "forward"
  /\ fn' = CreateStep(r, fn.args.rows,
                      fn.args.hosted \cup {<<fn.res[r].id, fn.res[r].backend>>},
                      [fn.res[r] EXCEPT !.forwarded = TRUE, !.pc = "store"])
  /\ NoFault
  /\ UNCHANGED otherFn

\* Create: the request to the node fails.
Create_DoFails(r) ==
  /\ fn.name = "Create"
  /\ fn.res[r].pc = "forward"
  /\ Fault
  /\ fn' = CreateReturn(r, "err")
  /\ UNCHANGED <<now, commands, enqVars, conVars, histVars, backend, upstreams,
                 meetings, sync, mstore, rowlock, hd, gw, upd>>

\* Create, meetingState == nil: CreateMeetingState of the backend inserts
\* a row for the meeting, unless the table has one.
Create_CreateMeetingState(r) ==
  /\ fn.name = "Create"
  /\ fn.res[r].pc = "store"
  /\ ~fn.res[r].found
  /\ IF UniqueViolation(fn.args.rows, fn.res[r].id)
       THEN fn' = CreateReturn(r, "err")
       ELSE fn' = CreateStep(r,
                    Append(fn.args.rows,
                           [id |-> fn.res[r].id, backend |-> fn.res[r].backend]),
                    fn.args.hosted,
                    [fn.res[r] EXCEPT !.wrote = TRUE, !.pc = "done",
                                      !.ret = "created"])
  /\ NoFault
  /\ UNCHANGED otherFn

\* Create, meetingState != nil: Save calls MeetingState.update and returns
\* its error.
Create_Save(r) ==
  /\ fn.name = "Create"
  /\ fn.res[r].pc = "store"
  /\ fn.res[r].found
  /\ fn' = CreateReturn(r, "implement me")
  /\ NoFault
  /\ UNCHANGED otherFn

CreatesInit ==
  /\ CallStart
  /\ fn = CreateCalls(<<>>, 0, {}, [r \in Creators |-> NoCreate])
\* A request that has returned is followed by the next one.
CreatesNext ==
  \E r \in Creators :
    \/ Create_meetingStateFromRequest(r)
    \/ Create_IsMeetingRunning(r)
    \/ Create_IsMeetingRunningFails(r)
    \/ Create_Do(r)
    \/ Create_DoFails(r)
    \/ Create_CreateMeetingState(r)
    \/ Create_Save(r)
SpecCreates == CreatesInit /\ [][CreatesNext]_vars

\* ------------------------------------------------------------- controller
\* The handlers a command could be dispatched to by its action.
NoNamedHandler == "none"

\* Controller.handleCommand: prints the command and returns "some result"
\* and no error, whatever the action; it calls no handler.
handleCommand(cmd) ==
  [res |-> "some result", err |-> FALSE, ran |-> NoNamedHandler]

\* process calls the handler of the controller for the claimed command.
Controller_handleCommand(c) ==
  /\ pc[c] = "handle"
  /\ LET h == handleCommand(commands[held[c]]) IN
       /\ out' = [out EXCEPT ![c] =
                    HandlerOutcome([res |-> h.res, err |-> h.err])]
       /\ fn' = [name |-> "handleCommand", done |-> TRUE,
                 args |-> [seq |-> held[c], action |-> commands[held[c]].action],
                 res |-> h]
  /\ invoked' = [invoked EXCEPT ![held[c]] = @ + 1]
  /\ pc' = [pc EXCEPT ![c] = "write"]
  /\ NoFault
  /\ UNCHANGED <<now, commands, enqVars, sub, notif, held, missed, lastDone,
                 swept, backend, upstreams, meetings, sync, mstore, rowlock,
                 hd, gw, upd>>

\* The commands callers queue for the controller.
ControllerInputs ==
  [action : Actions, params : {"params"}, deadline : {ZeroTime}]
ControllerInit ==
  /\ BInitWith({{}})
  /\ QInitWith(ControllerInputs, {"c1"}, FALSE)
ControllerNext ==
  \/ Queue_Insert
  \/ Queue_InsertFails
  \/ Queue_Notify
  \/ Queue_NotifyFails
  \/ Receive_Call("c1")
  \/ Receive_SubscribeFails("c1")
  \/ Receive_Notified("c1")
  \/ Receive_Timeout("c1")
  \/ Receive_WaitFails("c1")
  \/ process_BeginFails("c1")
  \/ process_Empty("c1")
  \/ process_Claim("c1")
  \/ Controller_handleCommand("c1")
  \/ process_Commit("c1")
  \/ process_WriteFails("c1")
  \/ Controller_Sleep("c1")
SpecController == ControllerInit /\ [][ControllerNext]_vars

\* The loop of Controller.Start calls Receive again and again, and the wait
\* of Receive ends after 10 s at the latest: a consumer that can take a step
\* takes one.
SpecReceiveFair ==
  SingleInit /\ [][RaceNext]_vars /\ WF_vars(ConsumerNext("c1"))

\* ================================================================= claims
Json(v) == <<"json", v>>
ClaimStep(c)  == held[c] = 0 /\ held'[c] # 0
CommitStep(c) == pc[c] = "write" /\ pc'[c] # "write" /\ faults' = faults

\* C1: each command is handed to a handler at most once in total, and a row
\* that is locked by a consumer is still in state requested and locked by
\* that consumer alone (so its terminal state is written by one consumer).
C1_AtMostOnce ==
  /\ \A s \in Seqs : invoked[s] <= 1
  /\ \A c \in Consumers : held[c] # 0 =>
       /\ commands[held[c]].state = "requested"
       /\ \A d \in Consumers \ {c} : held[d] # held[c]

C3_ClaimsSmallestSeq ==
  /\ [][\A c \in Consumers : ClaimStep(c) =>
          /\ commands[held'[c]].state = "requested"
          /\ \A d \in Consumers : held[d] # held'[c]
          /\ \A s \in Seqs :
               (commands[s].state = "requested"
                  /\ \A d \in Consumers \ {c} : held[d] # s) => held'[c] <= s]_vars
  /\ [][Cardinality(active) = 1 =>
          \A s \in Seqs : (~Terminal(s) /\ Terminal(s)') => s > lastDone]_vars

\* C3 witness: one consumer holds command 1, so the other claimed command 2.
C3_Witness ==
  \E c, d \in Consumers : c # d /\ held[c] = 1 /\ held[d] = 2

\* C4: a claim that finds the deadline passed does not call the handler;
\* what it commits is state error with result timedout.
C4_ExpiredIsTimedOut ==
  /\ [][\A c \in Consumers :
          (ClaimStep(c) /\ commands[held'[c]].deadline < now) =>
            pc'[c] = "write" /\ out'[c].h = NoReturn /\ invoked' = invoked]_vars
  /\ [][\A c \in Consumers :
          (CommitStep(c) /\ out[c].h = NoReturn) =>
            /\ commands'[held[c]].state = "error"
            /\ commands'[held[c]].result = Json("timedout")]_vars
  /\ [][\A s \in Seqs : invoked'[s] # invoked[s] =>
          \E c \in Consumers : held[c] = s /\ pc[c] = "handle"]_vars

\* C4 witness: a command committed as timed out whose handler never ran.
C4_Witness ==
  \E s \in Seqs : /\ commands[s].state = "error"
                  /\ commands[s].result = Json("timedout")
                  /\ invoked[s] = 0

InsertStep == enq.pc = "idle" /\ enq'.pc = "notify"

\* C7 as stated: the inserted row is in state requested and carries the
\* action, the params and the deadline of the caller's command.
C7_CallerDeadline ==
  [][InsertStep =>
       /\ commands'[enq'.seq].state = "requested"
       /\ commands'[enq'.seq].action = enq'.cmd.action
       /\ enq'.cmd.params # Unencodable =>
            commands'[enq'.seq].params = Json(enq'.cmd.params)
       /\ commands'[enq'.seq].deadline = enq'.cmd.deadline]_vars

\* C7 as amended: the inserted row is in state requested and carries the
\* action, the JSON encoding of the params (null when they cannot be
\* encoded) and a deadline 120 s after the call, whatever the command's
\* own deadline; the notification is issued only after the insert; a failed
\* insert issues no notification, writes no row and returns the error.
C7_DeadlineIs120s ==
  /\ [][InsertStep =>
          /\ commands[enq'.seq] = NoRow
          /\ commands'[enq'.seq].state = "requested"
          /\ commands'[enq'.seq].action = enq'.cmd.action
          /\ commands'[enq'.seq].params =
               (IF enq'.cmd.params = Unencodable THEN Null
                                                 ELSE Json(enq'.cmd.params))
          /\ commands'[enq'.seq].deadline = now + 120
          /\ notifies' = notifies]_vars
  /\ [](notifies <= nextSeq - 1)
  /\ [](enq.pc = "notify" => notifies < nextSeq - 1)
  /\ [][notifies' # notifies => enq.pc = "notify" /\ enq'.ret = "nil"]_vars
  /\ [][(enq.pc = "idle" /\ enq'.pc = "idle" /\ enq' # enq) =>
          /\ enq'.ret = "err"
          /\ notifies' = notifies
          /\ commands' = commands]_vars

\* C7 witness: a row was inserted for a command that names a deadline of
\* its own, and the notification is still to be issued.
C7_Witness ==
  /\ enq.pc = "notify"
  /\ enq.cmd.deadline # ZeroTime
  /\ Present(enq.seq)
  /\ commands[enq.seq].deadline # enq.cmd.deadline

\* C8: a sweep deletes every command created more than a minute before it,
\* in whatever state, and no other: no row is deleted unless it is older
\* than a minute, and no row that was older than a minute at the last
\* sweep is still in the table.
C8_SweepDeletesOld ==
  /\ [](swept => \A s \in Seqs : Present(s) => ~(now - commands[s].created_at > 60))
  /\ [][\A s \in Seqs : (Present(s) /\ commands'[s] # commands[s]) =>
          \/ commands'[s].created_at = commands[s].created_at /\ Present(s)'
          \/ /\ commands'[s] = DeletedRow
             /\ now - commands[s].created_at > 60
             /\ \A r \in Seqs : (Present(r) /\ now - commands[r].created_at > 60)
                                   => commands'[r] = DeletedRow]_vars

\* C8 witness: after a sweep a command older than a minute, never
\* processed, is gone while a younger one is still in the table.
C8_Witness ==
  /\ swept
  /\ commands[1] = DeletedRow /\ invoked[1] = 0 /\ lastDone = 0
  /\ commands[2].state = "requested"
  /\ now - commands[2].created_at = 60

\* C6: a consumer whose wait in Receive ends without a notification goes
\* on to poll the table, so a command in state requested is eventually
\* claimed (locked by a consumer) unless it leaves that state or the table.
C6_LostNotificationTolerated ==
  /\ [][\A c \in Consumers :
          (pc[c] = "wait" /\ pc'[c] # "wait" /\ faults' = faults) =>
             pc'[c] = "poll"]_vars
  /\ \A s \in Seqs :
       (commands[s].state = "requested") ~>
          (commands[s].state # "requested" \/ s \in LockedRows)

\* C6 witness: a consumer has claimed a command although the notification
\* was sent while it held no subscription, and none is pending for it.
C6_Witness ==
  \E c \in Consumers :
    held[c] # 0 /\ missed[c] /\ ~sub[c] /\ notif[c] = 0 /\ notifies = 1

ProbeSucceeded(p) == ~p.err /\ p.rc = "SUCCESS"
ProbeMessage(p)   == IF p.err THEN <<p.msg>> ELSE <<p.key, ": ", p.msg>>

C10_StoppedLeft ==
  /\ backend.op \in {"probe", "sync"}
  /\ backend.from = "stopped"
  /\ backend.row.node_state # "stopped"

\* C11: a backend whose row has node_state ready had its most recent
\* liveness probe succeed.
C11_ReadyImpliesProbeOk ==
  /\ backend.row.node_state = "ready" => backend.probed = "ok"
  /\ (backend.row.node_state = "ready" /\ backend.from # "ready") =>
       backend.op = "probe"

AgentSaved  == backend' # backend /\ backend'.op \in {"probe", "sync"}
ConfigSaved == backend' # backend /\ backend'.op = "config_secret"

\* C12: a save of the agent (probe or sync) leaves secret and admin_state
\* of the row as they were, and a save of the node's configuration path
\* leaves node_state and last_error of the row as they were.
C12_ColumnOwnership ==
  /\ [][AgentSaved =>
          /\ backend'.row.secret = backend.row.secret
          /\ backend'.row.admin_state = backend.row.admin_state]_vars
  /\ [][ConfigSaved =>
          /\ backend'.row.node_state = backend.row.node_state
          /\ backend'.row.last_error = backend.row.last_error]_vars

SyncReturned(r) == sync.pc = "idle" /\ sync.ret = r

\* C13: after SetMeetings has returned without error, the meetings stored
\* for the backend are exactly the list it was called with, the meetings
\* of other backends are as before the call, and synced_at of the row is
\* the time of the call.
C13_SyncStoresUpstream ==
  SyncReturned("nil") =>
    /\ MeetingsOf(meetings, ThisBackend) = sync.upstream
    /\ \A m \in MeetingIds :
         sync.tbl[m] # ThisBackend /\ m \notin sync.upstream =>
           meetings[m] = sync.tbl[m]
    /\ backend.row.synced_at = <<"time", sync.at>>

\* C14: while SetMeetings runs, the meetings stored for the backend are
\* those from before the call; when it has returned an error, they and
\* synced_at of the row are as before the call.
C14_SyncIsAtomic ==
  /\ sync.pc # "idle" =>
       MeetingsOf(meetings, ThisBackend) = MeetingsOf(sync.tbl, ThisBackend)
  /\ SyncReturned("err") =>
       /\ MeetingsOf(meetings, ThisBackend) = MeetingsOf(sync.tbl, ThisBackend)
       /\ backend.row.synced_at = sync.beforeSynced

\* A handler leaves the step in which it looked for the meeting of its event.
LookedUp(h) == hd[h].pc = "read" /\ hd'[h].pc # "read"
\* A handler returns nil to Dispatch, which commits.
ReturnsNil(h) ==
  hd[h].pc \in {"read", "save"} /\ hd'[h].pc \notin {"read", "save"}
    /\ hd'[h].ret = "nil"

\* C15: a handler of any of the five event types that finds no row for the
\* internal meeting id of its event (onMeetingCreated and onMeetingEnded:
\* none within the wait) returns nil and no meeting row changes.
C15_UnknownEventDropped ==
  [][\A h \in Handlers :
       (LookedUp(h) /\ ~mstore[EventId(h)].exists) =>
         (hd'[h].ret = "nil" /\ mstore' = mstore)]_vars

NoDuplicates(list) ==
  \A i, j \in 1..Len(list) : list[i] = list[j] => i = j

\* C16: whatever events were handled, delivered once or twice, no stored
\* attendee list holds the same internal_user_id twice.
C16_NoDuplicateAttendees ==
  \A x \in InternalIds : NoDuplicates(mstore[x].attendees)

\* C17: when a handler is given the event it has just handled a second
\* time and the row is as the first handling left it, the second handling
\* leaves every row as it found it.
C17_HandlersIdempotent ==
  [][\A h \in Handlers :
       (ReturnsNil(h) /\ hd[h].again /\ mstore[EventId(h)] = hd[h].first) =>
         mstore' = mstore]_vars

\* C18: a handler of MeetingCreated that began when its meeting had no row
\* and then found the row the gateway inserted holds that row, unchanged
\* by anyone else, until it saves; when it has saved and Dispatch has
\* committed, the row exists and is running.
C18_EventBeforeCreate ==
  /\ [](\A h \in Handlers :
         (hd[h].early /\ hd[h].pc = "save") =>
           /\ mstore[EventId(h)].exists
           /\ hd[h].mstate = mstore[EventId(h)])
  /\ [][\A h \in Handlers :
         (hd[h].early /\ hd[h].pc = "save" /\ ReturnsNil(h)) =>
           /\ mstore'[EventId(h)].exists
           /\ mstore'[EventId(h)].running]_vars

\* C18 witness: the gateway has created a meeting that was not known, and
\* the handler of its MeetingCreated, which began before the row was
\* there, has saved and returned; the meeting is stored as running.
C18_Witness ==
  /\ hd["h1"].pc = "idle" /\ hd["h1"].ret = "nil" /\ hd["h1"].early
  /\ gw.pc = "idle" /\ gw.op = "create" /\ gw.ret = "created"
  /\ mstore[gw.id].exists /\ mstore[gw.id].running

\* getMeetingInfo returns the answer of the node.
InfoReturned == gw' # gw /\ gw'.op = "info" /\ gw'.ret = "res"

\* C19: what a handler saves is its change applied to the row as it is
\* stored at that moment, whatever another handler did meanwhile; and when
\* getMeetingInfo has returned the node's snapshot of a stored meeting,
\* the row holds that snapshot.
C19_NoLostUpdate ==
  /\ [][\A h \in Handlers :
         (hd[h].pc = "save" /\ ReturnsNil(h)) =>
           mstore'[EventId(h)] = HandlerDelta(hd[h].ev, mstore[EventId(h)])]_vars
  /\ [][InfoReturned => mstore'[gw'.id] = gw'.snapshot]_vars

UpdateIdsMatch ==
  /\ upd.before.MeetingID = upd.update.MeetingID
  /\ upd.before.InternalMeetingID = upd.update.InternalMeetingID

\* C20: Update of m with a meeting whose MeetingID or InternalMeetingID
\* differs returns an error and leaves m as it was; with both ids equal it
\* returns nil and m equals the update.
C20_UpdateChecksIds ==
  upd.called =>
    IF UpdateIdsMatch
      THEN upd.err = "nil" /\ upd.m = upd.update
      ELSE upd.err # "nil" /\ upd.m = upd.before

\* C20 witness: Update was called with the same MeetingID and another
\* InternalMeetingID and other values, and returned an error.
C20_Witness ==
  /\ upd.called
  /\ upd.before.MeetingID = upd.update.MeetingID
  /\ upd.before.InternalMeetingID # upd.update.InternalMeetingID
  /\ upd.before.Running # upd.update.Running
  /\ upd.err # "nil" /\ upd.m = upd.before

\* C21: Eq returns true exactly when the two lists hold the same set of
\* labels, it returns the same with its arguments exchanged, and each
\* list holds afterwards what it held before, in some order.
C21_EqIsSetEquality ==
  (fn.name = "Tags.Eq" /\ fn.done) =>
    /\ fn.res.ret <=> (LabelSet(fn.args.t) = LabelSet(fn.args.other))
    /\ fn.res.ret = TagsEq(fn.args.other, fn.args.t).ret
    /\ SortStrings(fn.res.t.list) = SortStrings(fn.args.t.list)
    /\ SortStrings(fn.res.other.list) = SortStrings(fn.args.other.list)

BackendSettingsSame(a, b) == LabelSet(a.Tags) = LabelSet(b.Tags)
FrontendSettingsSame(a, b) ==
  /\ LabelSet(a.RequiredTags) = LabelSet(b.RequiredTags)
  /\ a.DefaultPresentation = b.DefaultPresentation

\* C22: Merge of either settings returns true exactly when the settings
\* differ afterwards from before (tags as sets), a nil field of the patch
\* leaves its field as it was, and merging the patch once more returns
\* false.
C22_MergeReportsChange ==
  /\ (fn.name = "BackendSettings.Merge" /\ fn.done) =>
       /\ fn.res.ret <=> ~BackendSettingsSame(fn.res.s, fn.args.s)
       /\ fn.args.update.Tags.nil => fn.res.s.Tags = fn.args.s.Tags
       /\ ~BackendSettingsMerge(fn.res.s, fn.res.update).ret
  /\ (fn.name = "FrontendSettings.Merge" /\ fn.done) =>
       /\ fn.res.ret <=> ~FrontendSettingsSame(fn.res.s, fn.args.s)
       /\ fn.args.update.RequiredTags.nil =>
            fn.res.s.RequiredTags = fn.args.s.RequiredTags
       /\ fn.args.update.DefaultPresentation.nil =>
            fn.res.s.DefaultPresentation = fn.args.s.DefaultPresentation
       /\ ~FrontendSettingsMerge(fn.res.s, fn.res.update).ret

\* The lists of pairs of a canonical string are in ascending key order.
Ascending(keys) == \A i \in 1..(Len(keys) - 1) : StrLess(keys[i], keys[i + 1])

\* C23: the checksum of Sign is the same for every order in which the
\* entries of P were added and with or without a checksum entry in P; the
\* canonical string has a pair for each key but checksum, in ascending
\* key order, and is empty for a nil or empty P, whose signed input is
\* the resource followed by the secret.
C23_SignCanonical ==
  (fn.name = "Sign" /\ fn.done) =>
    LET p == fn.args.params
        keys == SortStrings(KeysOf(Signed(p.list)))
    IN /\ \A q \in ParamMaps :
            WithoutChecksum(q) = WithoutChecksum(p) =>
              Sign(fn.args.resource, q, fn.args.secret) = fn.res.checksum
       /\ Ascending(keys)
       /\ fn.res.query =
            StringsJoin([i \in 1..Len(keys) |-> KeyValue(p.list, keys[i])],
                        <<"&">>)
       /\ WithoutChecksum(p) = {} =>
            /\ fn.res.query = <<>>
            /\ fn.res.checksum =
                 Sha256Hex(fn.args.resource \o fn.args.secret)

\* A map whose entries were added in descending key order, the first of
\* them a checksum, has been signed.
C23_Witness ==
  /\ fn.name = "Sign" /\ fn.done
  /\ Len(fn.args.params.list) = 2
  /\ fn.args.params.list[1].key = ChecksumKey
  /\ fn.args.params.list[2].key = <<"b">>
  /\ fn.res.query = <<"b", "=", "a", "+", "b">>

\* C24: Verify accepts a request exactly when its checksum is the one Sign
\* computes for its resource, its parameters and the same secret.
C24_VerifyRoundTrip ==
  (fn.name = "Verify" /\ fn.done) =>
    (fn.res.ok <=>
       fn.args.checksum =
         Sign(fn.args.resource, fn.args.params, fn.args.secret))

Elements(list) == {list[i] : i \in 1..Len(list)}

\* C25: the result of the router holds a candidate exactly when the tags
\* of the candidate cover the required tags of the frontend.
C25_RequiredTagsFilter ==
  (fn.name = "Lookup" /\ fn.done) =>
    \A b \in Elements(fn.args.backends) :
      b \in Elements(fn.res) <=>
        LabelSet(fn.args.req.required) \subseteq LabelSet(b.tags)

\* B1 {a, b} and B2 {a} with {b} required: the result is [B1].
C25_Witness ==
  /\ fn.name = "Lookup" /\ fn.done
  /\ Len(fn.args.backends) = 2
  /\ fn.args.req.required = TagsOf(<<<<"b">>>>)
  /\ \E b \in Elements(fn.args.backends) :
       /\ b.id = "b1" /\ LabelSet(b.tags) = {<<"a">>, <<"b">>}
       /\ fn.res = <<b>>
  /\ \E b \in Elements(fn.args.backends) :
       b.id = "b2" /\ LabelSet(b.tags) = {<<"a">>}

\* C26: for a request other than create on a meeting with a backend, that
\* backend is the first of the result whenever the result holds it; for a
\* meeting without a backend the result is in the order of the load.
C26_StickyFirst ==
  (fn.name = "Lookup" /\ fn.done /\ fn.args.req.resource # "create") =>
    /\ fn.args.req.bound \in Ids(fn.res) => fn.res[1].id = fn.args.req.bound
    /\ fn.args.req.bound = NoBackend =>
         \A i \in 1..(Len(fn.res) - 1) : LoadLess(fn.res[i], fn.res[i + 1])

Joined == fn.name = "Dispatch" /\ fn.done /\ fn.args.resource = "join"
            /\ fn.res.ret # "AuthFailed"

\* C28: a join that Join has answered was not sent to the backend; its
\* answer is a 302 with the URL signed with the secret of the backend as
\* location and the HTML fallback as body, and one UpdateMeetingState
\* command for the meeting is in the queue for it.
C28_JoinRedirects ==
  Joined =>
    /\ ~fn.res.contacted
    /\ fn.res.status = 302
    /\ fn.res.body = RedirectFallback
    /\ fn.res.location =
         BackendHost \o <<"join", "?", "m", "=">> \o <<fn.args.id>>
           \o <<"&", "checksum=">>
           \o Sha256Hex(<<"join", "m", "=">> \o <<fn.args.id>> \o BackendSecret)
    /\ fn.res.queued = 1
    /\ commands[fn.res.seq].action = "UpdateMeetingState"
    /\ commands[fn.res.seq].params = <<"json", fn.args.id>>

\* C29: once an end was answered with SUCCESS by the backend, the row of
\* the meeting is gone and no answer of getMeetings holds the meeting.
C29_EndDeletesRow ==
  /\ (fn.name = "Dispatch" /\ fn.done /\ fn.args.resource = "end"
        /\ fn.res.ret = "nil" /\ fn.res.returncode = "SUCCESS") =>
       ~mstore[fn.args.id].exists
  /\ (fn.name = "Dispatch" /\ fn.args.ended # "") =>
       /\ ~mstore[fn.args.ended].exists
       /\ fn.args.ended \notin fn.res.meetings

\* C30: the loop of the controller never ends. A step in which Receive
\* returns an error takes the controller to its sleep, and no other step
\* does; the sleep is one of at least a second and is followed by the next
\* call of Receive, as is a return of Receive without an error; and
\* whenever Receive has returned, the controller gets to wait in Receive
\* again.
C30_ControllerLoops ==
  /\ [][pc'["c1"] # pc["c1"] =>
         /\ faults' # faults => pc'["c1"] = "sleep"
         /\ pc'["c1"] = "sleep" => faults' # faults
         /\ pc["c1"] = "sleep" =>
              pc'["c1"] = "idle" /\ SleepSeconds >= 1
         /\ pc["c1"] = "idle" => pc'["c1"] \in {"wait", "sleep"}]_vars
  /\ (pc["c1"] \in {"idle", "sleep"}) ~> (pc["c1"] = "wait")

\* Receive has returned an error for a command it had claimed, and the
\* controller sleeps.
C30_Witness ==
  /\ pc["c1"] = "sleep"
  /\ faults > 0
  /\ \E s \in Seqs : Present(s) /\ commands[s].state = "requested"

\* C31: a command gets to state success only after the handler named by
\* its action ran for it and succeeded; for UpdateMeetingState that is
\* the handler that refreshes the stored state of the meeting.
C31_DispatchByAction ==
  [][\A s \in Seqs :
       (commands'[s].state = "success" /\ commands[s].state # "success") =>
         /\ fn.name = "handleCommand" /\ fn.args.seq = s
         /\ ~fn.res.err
         /\ fn.res.ran = commands[s].action]_vars

Resolved == fn.name = "configToBackendState" /\ fn.done

\* C33: configToBackendState returns a row whose host begins with the
\* server URL of the config, or nil when there is none; after it returned
\* a row without error the secret of that row is that of the config and
\* no other row has changed; when it returns nil or an error, or the
\* secrets were equal, the table is as before; and the row registered
\* from a config is the row resolved with the same config.
C33_ConfigResolves ==
  Resolved =>
    /\ (~fn.res.err /\ fn.res.state # "none") =>
         /\ fn.args.rows[fn.res.state].exists
         /\ HostMatches(fn.args.rows[fn.res.state].host, fn.args.serverURL)
         /\ fn.res.rows[fn.res.state].secret = fn.args.secret
         /\ \A b \in BackendIds \ {fn.res.state} :
              fn.res.rows[b] = fn.args.rows[b]
         /\ fn.args.rows[fn.res.state].secret = fn.args.secret =>
              fn.res.rows = fn.args.rows
    /\ (~fn.res.err /\ fn.res.state = "none") =>
         /\ Matching(fn.args.rows, fn.args.serverURL) = {}
         /\ fn.res.rows = fn.args.rows
    /\ fn.res.err => fn.res.rows = fn.args.rows
    /\ (~fn.res.err /\ fn.args.registered # "none") =>
         fn.res.state = fn.args.registered

C35_ForwardIffNotRunning ==
  fn.name = "Create" =>
    \A r \in Creators :
      (fn.res[r].pc = "done" /\ fn.res[r].ret \in {"synthetic", "created", "implement me"}) =>
        /\ fn.res[r].forwarded =
             (~fn.res[r].found \/ ~fn.res[r].answer.running)
        /\ (fn.res[r].found /\ fn.res[r].answer.running) =>
             /\ fn.res[r].ret = "synthetic"
             /\ fn.res[r].status = 200
             /\ ~fn.res[r].wrote

IsPrefix(p, q) == Len(p) <= Len(q) /\ SubSeq(q, 1, Len(p)) = p

\* C34: the middlewares run in the reverse order of their registration:
\* what has run of the router's chain is RequiredTags, which saw all the
\* candidates, and then SortLoad, which saw the ones RequiredTags left;
\* what has run of the gateway's chain is RewriteUniqueMeetingID,
\* BindMeetingFrontend, SetDefaultPresentation and then the handlers of
\* the meetings, the recordings and the admin resources, up to the one that
\* answers; and once a stage has failed no other stage runs.
C34_ReverseOrder ==
  /\ [](fn.name = "Chain" =>
         IsPrefix(fn.res.trace,
                  IF fn.args.chain = "router"
                    THEN <<"RequiredTags", "SortLoad">>
                    ELSE <<"RewriteUniqueMeetingID", "BindMeetingFrontend",
                           "SetDefaultPresentation", "MeetingsRequestHandler",
                           "RecordingsRequestHandler", "AdminRequestHandler">>))
  /\ [](fn.name = "Chain" /\ fn.args.chain = "router" =>
         /\ Len(fn.res.seen) >= 1 => fn.res.seen[1] = fn.args.backends
         /\ Len(fn.res.seen) >= 2 =>
              fn.res.seen[2] = RequiredTags(fn.args.backends, fn.args.req))
  /\ [][(fn.name = "Chain" /\ fn.res.ret = "err") => fn' = fn]_vars

\* A request for recordings went through the three middlewares and the
\* handler of the meetings, and the handler of the recordings has failed.
C34_Witness ==
  /\ fn.name = "Chain" /\ fn.done
  /\ fn.args.chain = "gateway" /\ fn.args.resource = "recordings"
  /\ fn.res.ret = "err"
  /\ fn.res.trace = <<"RewriteUniqueMeetingID", "BindMeetingFrontend",
                      "SetDefaultPresentation", "MeetingsRequestHandler",
                      "RecordingsRequestHandler">>

\* C36: a getMeetingInfo the node answers with SUCCESS returns that answer
\* to the caller; if the store holds the meeting, its row holds the
\* snapshot of the answer afterwards; if it does not, the request still
\* returns the answer and the store is as before.
C36_InfoStoresSnapshot ==
  [][(gw' # gw /\ gw'.op = "info") =>
       /\ gw'.ret = "res"
       /\ mstore[gw'.id].exists => mstore'[gw'.id] = gw'.snapshot
       /\ ~mstore[gw'.id].exists => mstore' = mstore]_vars

\* C37: a getMeetings of a frontend that no fault hits is answered from
\* the store, without a request to a backend, with the meetings bound to
\* that frontend and no other meeting.
C37_OnlyOwnMeetings ==
  (fn.name = "Dispatch" /\ fn.done /\ fn.args.resource = "getMeetings"
     /\ fn.res.ret # "AuthFailed" /\ faults = 0) =>
    /\ fn.res.ret = "nil"
    /\ ~fn.res.contacted
    /\ fn.res.meetings = {x \in InternalIds :
                            mstore[x].exists /\ FrontendOf(x) = fn.args.frontend}

\* C38: a command that leaves the table was in a terminal state, success
\* or error, and was not claimed by a consumer: housekeeping deletes no
\* command that is still requested.
C38_DeletedOnlyWhenDone ==
  [][\A s \in Seqs :
       (Present(s) /\ commands'[s] = DeletedRow) =>
         Terminal(s) /\ s \notin LockedRows]_vars

\* C39: on a response of any type no call of SetStatus, Status, SetHeader
\* or Header ends the program or calls itself without end, and what
\* Status() returns after SetStatus(s) is s, what Header() returns after
\* SetHeader(h) is h.
C39_AccessorsReturn ==
  fn.name = "Response" =>
    /\ fn.res.ret # "fatal"
    /\ \A i \in 1..Len(fn.res.stack) :
         \A j \in 1..Len(fn.res.stack) :
           i # j => fn.res.stack[i] # fn.res.stack[j]
    /\ fn.done => fn.res.got = <<fn.args.value>>

\* C40: when Dispatch returns without an error for an event of a meeting
\* the store holds, the change of the event is in the store, so that no
\* row of the meeting is left after MeetingDestroyed; and when Dispatch
\* returns an error, the store is as it was before the event.
C40_DispatchAllOrNothing ==
  [][\A h \in Handlers :
       (hd[h].pc \in {"read", "save"} /\ hd'[h].pc \notin {"read", "save"}) =>
         /\ (hd'[h].ret = "nil" /\ hd[h].ev.type = "MeetingDestroyed") =>
              ~mstore'[hd[h].ev.id].exists
         /\ hd'[h].ret = "err" => mstore' = mstore]_vars
====
